---- MODULE Spec2Model ----
(***************************************************************************)
(* State-machine model of the GUI music streamer:                          *)
(*   - LinkedListPlaylist   (src/src/linked_list_playlist.py)              *)
(*   - PrioritySongQueue    (src/src/stacks_queues_music.py)               *)
(*   - MusicPlayerStacksQueues and the GUI event handlers (src/main_gui.py)*)
(* The doubly linked list is modelled at pointer level: every SongNode is  *)
(* a cell of an arena with its own next / previous / song_data fields.     *)
(***************************************************************************)
EXTENDS Integers, Sequences, FiniteSets, TLC

\* ------------------------------------------------------------------------
\* Bounds of the model
\* ------------------------------------------------------------------------
MaxSize == 3

\* remove_song is not called once size has fallen to -SizeFloor
SizeFloor == 1

\* Calls made on a playlist whose links are inconsistent, counted from the
\* call that left them inconsistent
MaxIllOps == 3

\* Longest party queue, highest priority, and number of enqueue calls
MaxQueue == 3
MaxPriority == 2
MaxEnqueues == 4

\* Longest listening history, and most MUSIC_END events waiting in the
\* pygame event queue
MaxHistory == 3
MaxPending == 1

\* Most songs the GUI puts into its playlist
MaxPlaylist == 2

\* Most playlists the PlaylistManager holds at once
MaxCatalog == 2

\* Number of SongQueue.enqueue calls between two clear_queue calls
MaxFifo == 4

\* Longest Play-Next Queue and Party Queue of the player, highest priority
\* given to add_to_party_queue, and number of add_to_party_queue calls
MaxWaiting == 2
MaxPartyPriority == 1
MaxPartyAdds == 3
MaxGuiQueue == 1

\* Most songs played while the GUI acts on the catalog
MaxCatalogPlays == 2

\* Longest list given to recursive_shuffle_playlist, and number of outcomes
\* of random.random() chosen freely before the outcomes repeat
MaxShuffle == 3
MaxCoins == 3

\* ------------------------------------------------------------------------
\* Values
\* ------------------------------------------------------------------------
\* A node reference that is None
Null == 0

\* The value None
None == [none |-> TRUE]

\* The values True and False returned by a method
True == [bool |-> TRUE]
False == [bool |-> FALSE]

\* The arena of SongNode objects.  One cell more than the largest playlist:
\* shuffle_playlist allocates its first new node while the old nodes are
\* still referenced by current_node.
NodeIds == 1..(MaxSize + 1)

\* Song dictionaries of the library.  A title is a sequence of characters.
SongA == [title |-> <<"a">>, artist |-> <<"X">>, file_path |-> "a.mp3"]
SongA2 == [title |-> <<"A">>, artist |-> <<"y">>, file_path |-> "A2.mp3"]
SongB == [title |-> <<"b">>, artist |-> <<"Y">>, file_path |-> "b.mp3"]

Songs == {SongA, SongA2, SongB}

\* The songs of the music library shown by the GUI
Library == {SongA, SongB}

\* Titles passed to the title-based lookups: "a" matches SongA and SongA2,
\* "B" matches SongB, "z" matches nothing.
Targets == {<<"a">>, <<"B">>, <<"z">>}

\* str.lower() on one character
LowerChar(c) ==
  CASE c = "A" -> "a"
    [] c = "B" -> "b"
    [] c = "X" -> "x"
    [] c = "Y" -> "y"
    [] c = "Z" -> "z"
    [] c = "Σ" -> "σ"
    [] OTHER -> c

\* The characters of the model; all of them are cased letters
Cased(c) == c \in {"a", "A", "b", "B", "x", "X", "y", "Y", "z", "Z", "Σ", "σ", "ς"}

\* str.lower().  It maps character by character, except that a capital
\* sigma that follows a cased letter and is not followed by one becomes the
\* final form of the small sigma.
lower(s) ==
  [i \in 1..Len(s) |->
     IF s[i] = "Σ" /\ i > 1 /\ Cased(s[i - 1])
                  /\ ~(i < Len(s) /\ Cased(s[i + 1]))
     THEN "ς"
     ELSE LowerChar(s[i])]

\* ------------------------------------------------------------------------
\* LinkedListPlaylist
\* ------------------------------------------------------------------------
\* LinkedListPlaylist.__init__ : an empty playlist; no SongNode allocated
NewPlaylist ==
  [head |-> Null, tail |-> Null, current_node |-> Null, size |-> 0,
   next |-> [n \in NodeIds |-> Null],
   previous |-> [n \in NodeIds |-> Null],
   song_data |-> [n \in NodeIds |-> None]]

is_empty(P) == P.head = Null

\* Nodes that exist (allocated cells of the arena)
Allocated(P) == {n \in NodeIds : P.song_data[n] # None}

\* Object allocation: the smallest free cell
Alloc(P) == CHOOSE n \in NodeIds : /\ n \notin Allocated(P)
                                   /\ \A m \in NodeIds \ Allocated(P) : n <= m

\* SongNode.__init__ : a node holding song_data, with next = previous = None
SongNode(P, n, song) ==
  [P EXCEPT !.song_data[n] = song, !.next[n] = Null, !.previous[n] = Null]

\* Nodes reachable from the set S through next and previous
RECURSIVE Closure(_, _)
Closure(P, S) ==
  LET T == S \cup {P.next[n] : n \in S} \cup {P.previous[n] : n \in S}
      U == T \ {Null}
  IN IF U = S THEN S ELSE Closure(P, U)

\* Python frees a node once nothing references it.  Roots are the three
\* references held by the playlist object.
Collect(P) ==
  LET live == Closure(P, {P.head, P.tail, P.current_node} \ {Null})
  IN [P EXCEPT !.next = [n \in NodeIds |-> IF n \in live THEN P.next[n] ELSE Null],
               !.previous = [n \in NodeIds |-> IF n \in live THEN P.previous[n] ELSE Null],
               !.song_data = [n \in NodeIds |-> IF n \in live THEN P.song_data[n] ELSE None]]

\* Fuel of a pointer walk: one more than the number of cells, so that a walk
\* that uses all of it has run into a cycle
Fuel == Cardinality(NodeIds) + 1

\* The nodes visited by `while current: ...; current = current.<link>`
\* starting at n, cut off after `fuel` nodes
RECURSIVE Walk(_, _, _)
Walk(link, n, fuel) ==
  IF n = Null \/ fuel = 0 THEN <<>>
  ELSE <<n>> \o Walk(link, link[n], fuel - 1)

\* Forward traversal from head and backward traversal from tail
Fwd(P) == Walk(P.next, P.head, Fuel)
Bwd(P) == Walk(P.previous, P.tail, Fuel)

\* TRUE when following next from head never reaches None
Cyclic(P) == Len(Fwd(P)) = Fuel

\* The loop shared by insert_song_after, insert_song_before and remove_song:
\* the first node from `cur` on whose title equals t ignoring case; Null if
\* the walk ends without a match; -1 if the walk never ends (a cycle without
\* a match)
RECURSIVE FindTitle(_, _, _, _)
FindTitle(P, cur, t, fuel) ==
  IF cur = Null THEN Null
  ELSE IF fuel = 0 THEN -1
  ELSE IF lower(P.song_data[cur].title) = lower(t) THEN cur
  ELSE FindTitle(P, P.next[cur], t, fuel - 1)

\* s reversed
Reverse(s) == [i \in 1..Len(s) |-> s[Len(s) + 1 - i]]

\* The links form one doubly linked list from head to tail: following next
\* from head ends, following previous from tail visits the same nodes in
\* reverse order, size counts them and the cursor is unset or one of them
WellFormed(P) ==
  /\ ~Cyclic(P)
  /\ Bwd(P) = Reverse(Fwd(P))
  /\ P.size = Len(Fwd(P))
  /\ P.current_node = Null \/ \E i \in 1..Len(Fwd(P)) : Fwd(P)[i] = P.current_node

\* Result of a call: the playlist after it, the returned value and how the
\* call ended: "ok" (returned), "raise" (an exception left the call) or
\* "hang" (the call never returns)
Result(P, r, s) == [pl |-> P, ret |-> r, st |-> s]

add_song_at_end(P, song) ==
  LET new_node == Alloc(P)
      P1 == SongNode(P, new_node, song)
  IN IF is_empty(P)
     THEN Result(Collect([P1 EXCEPT !.head = new_node, !.tail = new_node,
                                    !.current_node = new_node, !.size = @ + 1]),
                 None, "ok")
     ELSE IF P.tail = Null
     THEN \* self.tail.next on None: AttributeError, the new node is dropped
          Result(P, None, "raise")
     ELSE Result([P1 EXCEPT !.previous[new_node] = P.tail,
                            !.next[P.tail] = new_node,
                            !.tail = new_node, !.size = @ + 1],
                 None, "ok")

add_song_at_beginning(P, song) ==
  LET new_node == Alloc(P)
      P1 == SongNode(P, new_node, song)
  IN IF is_empty(P)
     THEN Result(Collect([P1 EXCEPT !.head = new_node, !.tail = new_node,
                                    !.current_node = new_node, !.size = @ + 1]),
                 None, "ok")
     ELSE Result([P1 EXCEPT !.next[new_node] = P.head,
                            !.previous[P.head] = new_node,
                            !.head = new_node, !.size = @ + 1],
                 None, "ok")

insert_song_after(P, target_song_title, song) ==
  IF is_empty(P) THEN Result(P, False, "ok")
  ELSE
    LET current == FindTitle(P, P.head, target_song_title, Fuel)
    IN IF current = Null THEN Result(P, False, "ok")
       ELSE IF current = -1 THEN Result(P, False, "hang")
       ELSE
         LET new_node == Alloc(P)
             P1 == SongNode(P, new_node, song)
             P2 == [P1 EXCEPT !.next[new_node] = P.next[current],
                              !.previous[new_node] = current]
             P3 == IF P.next[current] # Null
                   THEN [P2 EXCEPT !.previous[P.next[current]] = new_node]
                   ELSE [P2 EXCEPT !.tail = new_node]
         IN Result([P3 EXCEPT !.next[current] = new_node, !.size = @ + 1],
                   True, "ok")

insert_song_before(P, target_song_title, song) ==
  IF is_empty(P) THEN Result(P, False, "ok")
  ELSE
    LET current == FindTitle(P, P.head, target_song_title, Fuel)
    IN IF current = Null THEN Result(P, False, "ok")
       ELSE IF current = -1 THEN Result(P, False, "hang")
       ELSE
         LET new_node == Alloc(P)
             P1 == SongNode(P, new_node, song)
             P2 == [P1 EXCEPT !.next[new_node] = current,
                              !.previous[new_node] = P.previous[current]]
             P3 == IF P.previous[current] # Null
                   THEN [P2 EXCEPT !.next[P.previous[current]] = new_node]
                   ELSE [P2 EXCEPT !.head = new_node]
         IN Result([P3 EXCEPT !.previous[current] = new_node, !.size = @ + 1],
                   True, "ok")

\* remove_song with the cursor re-pointed to the predecessor first
remove_song_PredecessorFirst(P, song_title) ==
  IF is_empty(P) THEN Result(P, False, "ok")
  ELSE
    LET current == FindTitle(P, P.head, song_title, Fuel)
    IN IF current = Null THEN Result(P, False, "ok")
       ELSE IF current = -1 THEN Result(P, False, "hang")
       ELSE
         LET P1 == IF P.current_node = current
                   THEN IF P.previous[current] # Null
                        THEN [P EXCEPT !.current_node = P.previous[current]]
                        ELSE IF P.next[current] # Null
                        THEN [P EXCEPT !.current_node = P.next[current]]
                        ELSE [P EXCEPT !.current_node = Null]
                   ELSE P
             P2 == IF P.previous[current] # Null
                   THEN [P1 EXCEPT !.next[P.previous[current]] = P.next[current]]
                   ELSE [P1 EXCEPT !.head = P.next[current]]
             P3 == IF P.next[current] # Null
                   THEN [P2 EXCEPT !.previous[P.next[current]] = P.previous[current]]
                   ELSE [P2 EXCEPT !.tail = P.previous[current]]
         IN Result(Collect([P3 EXCEPT !.size = @ - 1]), True, "ok")

\* remove_song that leaves the cursor on the node it unlinks
remove_song_KeepsCursor(P, song_title) ==
  IF is_empty(P) THEN Result(P, False, "ok")
  ELSE
    LET current == FindTitle(P, P.head, song_title, Fuel)
    IN IF current = Null THEN Result(P, False, "ok")
       ELSE IF current = -1 THEN Result(P, False, "hang")
       ELSE
         LET P2 == IF P.previous[current] # Null
                   THEN [P EXCEPT !.next[P.previous[current]] = P.next[current]]
                   ELSE [P EXCEPT !.head = P.next[current]]
             P3 == IF P.next[current] # Null
                   THEN [P2 EXCEPT !.previous[P.next[current]] = P.previous[current]]
                   ELSE [P2 EXCEPT !.tail = P.previous[current]]
         IN Result([P3 EXCEPT !.size = @ - 1], True, "ok")

remove_song(P, song_title) ==
  IF is_empty(P) THEN Result(P, False, "ok")
  ELSE
    LET current == FindTitle(P, P.head, song_title, Fuel)
    IN IF current = Null THEN Result(P, False, "ok")
       ELSE IF current = -1 THEN Result(P, False, "hang")
       ELSE
         LET P1 == IF P.current_node = current
                   THEN IF P.next[current] # Null
                        THEN [P EXCEPT !.current_node = P.next[current]]
                        ELSE IF P.previous[current] # Null
                        THEN [P EXCEPT !.current_node = P.previous[current]]
                        ELSE [P EXCEPT !.current_node = Null]
                   ELSE P
             P2 == IF P.previous[current] # Null
                   THEN [P1 EXCEPT !.next[P.previous[current]] = P.next[current]]
                   ELSE [P1 EXCEPT !.head = P.next[current]]
             P3 == IF P.next[current] # Null
                   THEN [P2 EXCEPT !.previous[P.next[current]] = P.previous[current]]
                   ELSE [P2 EXCEPT !.tail = P.previous[current]]
         IN Result(Collect([P3 EXCEPT !.size = @ - 1]), True, "ok")

next_song(P) ==
  IF P.current_node = Null \/ P.next[P.current_node] = Null
  THEN Result(P, None, "ok")
  ELSE Result(Collect([P EXCEPT !.current_node = P.next[P.current_node]]),
              P.song_data[P.next[P.current_node]], "ok")

previous_song(P) ==
  IF P.current_node = Null \/ P.previous[P.current_node] = Null
  THEN Result(P, None, "ok")
  ELSE Result(Collect([P EXCEPT !.current_node = P.previous[P.current_node]]),
              P.song_data[P.previous[P.current_node]], "ok")

get_current_song(P) ==
  IF P.current_node = Null THEN None ELSE P.song_data[P.current_node]

go_to_first_song(P) ==
  IF is_empty(P) THEN Result(P, None, "ok")
  ELSE Result(Collect([P EXCEPT !.current_node = P.head]),
              P.song_data[P.head], "ok")

go_to_last_song(P) ==
  IF is_empty(P) THEN Result(P, None, "ok")
  ELSE IF P.tail = Null
  THEN \* self.current_node = self.tail, then None.song_data: AttributeError
       Result(Collect([P EXCEPT !.current_node = Null]), None, "raise")
  ELSE Result(Collect([P EXCEPT !.current_node = P.tail]),
              P.song_data[P.tail], "ok")

\* The link-flipping loop of reverse_playlist:
\*   while current: swap current.next, current.previous; current = current.previous
\* `seen` holds the loop states already passed: reaching one again means the
\* loop never ends.
RECURSIVE FlipLoop(_, _, _, _)
FlipLoop(nxt, prv, current, seen) ==
  IF current = Null THEN [next |-> nxt, previous |-> prv, st |-> "ok"]
  ELSE IF <<nxt, prv, current>> \in seen
  THEN [next |-> nxt, previous |-> prv, st |-> "hang"]
  ELSE LET nxt1 == [nxt EXCEPT ![current] = prv[current]]
           prv1 == [prv EXCEPT ![current] = nxt[current]]
       IN FlipLoop(nxt1, prv1, prv1[current], seen \cup {<<nxt, prv, current>>})

\* The cursor re-scan of reverse_playlist: the first node from temp on whose
\* song_data equals `data`; Null if the walk ends, -1 if it never ends
RECURSIVE FindData(_, _, _, _)
FindData(P, temp, data, fuel) ==
  IF temp = Null THEN Null
  ELSE IF fuel = 0 THEN -1
  ELSE IF P.song_data[temp] = data THEN temp
  ELSE FindData(P, P.next[temp], data, fuel - 1)

reverse_playlist(P) ==
  IF P.size <= 1 THEN Result(P, None, "ok")
  ELSE
    LET P1 == [P EXCEPT !.head = P.tail, !.tail = P.head]
        F == FlipLoop(P1.next, P1.previous, P1.head, {})
        P2 == [P1 EXCEPT !.next = F.next, !.previous = F.previous]
    IN IF F.st = "hang" THEN Result(P2, None, "hang")
       ELSE IF P2.current_node = Null THEN Result(Collect(P2), None, "ok")
       ELSE
         LET temp == FindData(P2, P2.head, P2.song_data[P2.current_node], Fuel)
         IN IF temp = -1 THEN Result(P2, None, "hang")
            ELSE IF temp = Null THEN Result(Collect(P2), None, "ok")
            ELSE Result(Collect([P2 EXCEPT !.current_node = temp]), None, "ok")

\* songs[i], songs[j] = songs[j], songs[i]   (1-based here)
SwapAt(songs, i, j) ==
  [k \in 1..Len(songs) |-> IF k = i THEN songs[j] ELSE IF k = j THEN songs[i] ELSE songs[k]]

\* The lists `songs` can be after `rounds` rounds of the swap loop, when
\* random.randint(0, size - 1) draws i and j and no access is out of range
RECURSIVE SwapRounds(_, _, _)
SwapRounds(S, size, rounds) ==
  IF rounds <= 0 THEN S
  ELSE SwapRounds(S \cup {SwapAt(s, i, j) : s \in S,
                          i \in 1..size, j \in 1..size},
                  size, rounds - 1)

\* for song in songs: self.add_song_at_end(song)
RECURSIVE Rebuild(_, _)
Rebuild(P, songs) ==
  IF songs = <<>> THEN P
  ELSE Rebuild(add_song_at_end(P, Head(songs)).pl, Tail(songs))

\* shuffle_playlist: the set of its possible results, one per outcome of the
\* random draws
shuffle_playlist(P) ==
  IF P.size <= 1 THEN {Result(P, None, "ok")}
  ELSE IF Cyclic(P)
  THEN \* `while current: songs.append(...)` never ends
       {Result(P, None, "hang")}
  ELSE
    LET nodes == Fwd(P)
        songs == [k \in 1..Len(nodes) |-> P.song_data[nodes[k]]]
        inRange == IF P.size <= Len(songs) THEN P.size ELSE Len(songs)
        shuffled == SwapRounds({songs}, inRange, P.size * 2)
        P0 == [P EXCEPT !.head = Null, !.tail = Null, !.size = 0]
        done == {LET R == Rebuild(P0, s)
                 IN Result(Collect([R EXCEPT !.current_node = R.head]), None, "ok")
                 : s \in shuffled}
        \* an index drawn beyond the end of `songs`: IndexError before the
        \* playlist is touched
        failed == IF P.size > Len(songs) THEN {Result(P, None, "raise")} ELSE {}
    IN done \cup failed

\* ------------------------------------------------------------------------
\* PrioritySongQueue
\* ------------------------------------------------------------------------
\* An entry of PrioritySongQueue.queue is the tuple (song, priority).  The
\* field seq is a history field: the serial number of the enqueue call that
\* stored the entry.  No method reads it.
Entry(song, priority, seq) == [song |-> song, priority |-> priority, seq |-> seq]

\* One step of a stable descending sort: e goes behind every element of the
\* sorted list r whose priority is not lower than its own
\* an unstable step: e goes in front of the elements of its own priority
RECURSIVE InsertDesc_BeforeEquals(_, _)
InsertDesc_BeforeEquals(r, e) ==
  IF r = <<>> THEN <<e>>
  ELSE IF Head(r).priority > e.priority
  THEN <<Head(r)>> \o InsertDesc_BeforeEquals(Tail(r), e)
  ELSE <<e>> \o r

RECURSIVE InsertDesc(_, _)
InsertDesc(r, e) ==
  IF r = <<>> THEN <<e>>
  ELSE IF Head(r).priority >= e.priority THEN <<Head(r)>> \o InsertDesc(Tail(r), e)
  ELSE <<e>> \o r

\* list.sort(key=lambda x: x[1], reverse=True): descending by priority and
\* stable, entries of equal priority keep the order they had in q
RECURSIVE SortDesc(_, _)
SortDesc(r, q) ==
  IF q = <<>> THEN r ELSE SortDesc(InsertDesc(r, Head(q)), Tail(q))

\* the sort left out
sort_by_priority_NoSort(q) == q

sort_by_priority(q) == SortDesc(<<>>, q)

enqueue(q, song, priority, seq) ==
  sort_by_priority(Append(q, Entry(song, priority, seq)))

dequeue(q) ==
  IF q # <<>> THEN [queue |-> Tail(q), ret |-> Head(q).song]
  ELSE [queue |-> q, ret |-> None]

clear_queue(q) == <<>>

\* The index of the first entry of q whose title equals song_title ignoring
\* case; 0 if there is none
\* the last match instead of the first
FirstMatch_Last(q, song_title) ==
  IF \E i \in 1..Len(q) : lower(q[i].song.title) = lower(song_title)
  THEN CHOOSE i \in 1..Len(q) :
         /\ lower(q[i].song.title) = lower(song_title)
         /\ \A j \in (i + 1)..Len(q) : lower(q[j].song.title) # lower(song_title)
  ELSE 0

FirstMatch(q, song_title) ==
  IF \E i \in 1..Len(q) : lower(q[i].song.title) = lower(song_title)
  THEN CHOOSE i \in 1..Len(q) :
         /\ lower(q[i].song.title) = lower(song_title)
         /\ \A j \in 1..(i - 1) : lower(q[j].song.title) # lower(song_title)
  ELSE 0

upvote(q, song_title) ==
  LET i == FirstMatch(q, song_title)
  IN IF i = 0 THEN [queue |-> q, ret |-> False]
     ELSE [queue |-> sort_by_priority([q EXCEPT ![i].priority = @ + 1]),
           ret |-> True]

\* ------------------------------------------------------------------------
\* State
\* ------------------------------------------------------------------------
\* Playlist names; the empty string is one of them
Names == {"", "p", "q"}

VARIABLES
  pl,       \* a LinkedListPlaylist object driven directly through its methods
  ret,      \* how the last call ended and what it returned
  last_op,  \* the last call: method, arguments, the node its lookup stopped
            \* at and the cursor at the time of the call
  hung,     \* TRUE once a call has entered a loop that never ends
  ill_ops,  \* calls made since the links of pl became inconsistent
  party_queue,  \* PrioritySongQueue.queue
  enq_count,    \* number of PrioritySongQueue.enqueue calls so far
  playing_playlist,     \* GUIMusicPlayer.playing_playlist: None or the playlist
  currently_playing,    \* MusicPlayerStacksQueues.currently_playing
  listening_history,    \* ListeningHistoryStack.stack
  mixer,                \* pygame.mixer.music: "idle", "playing" or "paused"
  music_end_pending,    \* MUSIC_END events waiting in the pygame event queue
  modal,                \* GUIMusicPlayer.modal
  playlist_songs_list,  \* the song list of the Playlists tab
  history_display,      \* the list of the History tab
  now_playing,          \* now_playing_label and the text of the Play/Pause button
  playlists_json,       \* the songs stored in playlists.json
  end_run,      \* MUSIC_END events handled in a row for the attached playlist,
                \* each one playing a song, since the last action of the user
  play_next_queue,  \* SongQueue.queue of MusicPlayerStacksQueues.play_next_queue
  audio_log,    \* the pygame.mixer.music calls of the last method called
                \* directly on the MusicPlayerStacksQueues object
  song_queue,   \* SongQueue.queue of a SongQueue object driven directly
  enqueued,     \* history variable: the songs given to song_queue.enqueue
                \* since the queue was created or cleared, in call order
  dequeued,     \* history variable: the songs song_queue.dequeue returned
                \* since then, in call order
  playlists,    \* PlaylistManager.playlists: the entries of the dict in
                \* insertion order, each a name and its LinkedListPlaylist
  current_playlist_name,  \* PlaylistManager.current_playlist_name: None or
                          \* the record of a string
  playlist_descriptions,  \* GUIMusicPlayer.playlist_descriptions: for every
                          \* name None (no such key) or the record of a string
  playlists_list,         \* the list of playlist names of the Playlists tab
  play_next_list          \* the list of the Play-Next Queue in the Queues tab

sqVars == <<song_queue, enqueued, dequeued>>

queueVars == <<play_next_queue, audio_log, sqVars>>

\* The catalog of playlists and the lists two of the tabs show
catalogVars == <<playlists, current_playlist_name, playlist_descriptions,
                 playlists_list, play_next_list>>

guiVars == <<playing_playlist, currently_playing, listening_history, mixer,
             music_end_pending, modal, playlist_songs_list, history_display,
             now_playing, playlists_json, end_run, queueVars, catalogVars>>

vars == <<pl, ret, last_op, hung, ill_ops, party_queue, enq_count, guiVars>>

plVars == <<pl, hung, ill_ops>>
pqVars == <<party_queue, enq_count>>
apiVars == <<ret, last_op, hung, ill_ops, party_queue, enq_count, queueVars,
            catalogVars>>

NoOp == [name |-> "init", title |-> <<>>, song |-> None, node |-> Null, cursor |-> Null]

Call(name, title, song, node) ==
  [name |-> name, title |-> title, song |-> song, node |-> node,
   cursor |-> pl.current_node]

Init ==
  /\ pl = NewPlaylist
  /\ ret = [st |-> "ok", val |-> None]
  /\ last_op = NoOp
  /\ hung = FALSE
  /\ ill_ops = 0
  /\ party_queue = <<>>
  /\ enq_count = 0
  /\ playing_playlist = None
  /\ currently_playing = None
  /\ listening_history = <<>>
  /\ mixer = "idle"
  /\ music_end_pending = 0
  /\ modal = None
  /\ playlist_songs_list = [items |-> <<>>, selected_index |-> -1]
  /\ history_display = <<>>
  /\ now_playing = [label |-> None, btn |-> "Play/Pause"]
  /\ playlists_json = <<>>
  /\ play_next_queue = <<>>
  /\ audio_log = <<>>
  /\ song_queue = <<>>
  /\ enqueued = <<>>
  /\ dequeued = <<>>
  /\ playlists = <<>>
  /\ current_playlist_name = None
  /\ playlist_descriptions = [n \in Names |-> None]
  /\ playlists_list = [items |-> <<>>, selected_index |-> -1]
  /\ play_next_list = [items |-> <<>>, selected_index |-> -1]
  /\ end_run = 0

\* A call on the playlist object with result R
Perform(R, op) ==
  /\ ~hung
  /\ WellFormed(pl) \/ ill_ops < MaxIllOps
  /\ ill_ops' = IF WellFormed(pl) \/ WellFormed(R.pl) THEN 0 ELSE ill_ops + 1
  /\ pl' = R.pl
  /\ ret' = [st |-> R.st, val |-> R.ret]
  /\ last_op' = op
  /\ hung' = (R.st = "hang")
  /\ UNCHANGED <<pqVars, guiVars>>

\* A new SongNode can be allocated within the bounds of the model
CanGrow(P) == Cardinality(Allocated(P)) < MaxSize /\ P.size < MaxSize

AddSongAtEnd(song) ==
  /\ CanGrow(pl)
  /\ Perform(add_song_at_end(pl, song), Call("add_song_at_end", <<>>, song, Null))

AddSongAtBeginning(song) ==
  /\ CanGrow(pl)
  /\ Perform(add_song_at_beginning(pl, song),
             Call("add_song_at_beginning", <<>>, song, Null))

InsertSongAfter(t, song) ==
  /\ CanGrow(pl)
  /\ Perform(insert_song_after(pl, t, song),
             Call("insert_song_after", t, song, FindTitle(pl, pl.head, t, Fuel)))

InsertSongBefore(t, song) ==
  /\ CanGrow(pl)
  /\ Perform(insert_song_before(pl, t, song),
             Call("insert_song_before", t, song, FindTitle(pl, pl.head, t, Fuel)))

RemoveSong(t) ==
  /\ pl.size > -SizeFloor
  /\ Perform(remove_song(pl, t),
             Call("remove_song", t, None, FindTitle(pl, pl.head, t, Fuel)))

NextSong ==
  /\ ~hung
  /\ Perform(next_song(pl), Call("next_song", <<>>, None, Null))

PreviousSong ==
  /\ ~hung
  /\ Perform(previous_song(pl), Call("previous_song", <<>>, None, Null))

GoToFirstSong ==
  /\ ~hung
  /\ Perform(go_to_first_song(pl), Call("go_to_first_song", <<>>, None, Null))

GoToLastSong ==
  /\ ~hung
  /\ Perform(go_to_last_song(pl), Call("go_to_last_song", <<>>, None, Null))

ReversePlaylist ==
  /\ ~hung
  /\ Perform(reverse_playlist(pl), Call("reverse_playlist", <<>>, None, Null))

ShufflePlaylist ==
  /\ ~hung
  /\ \E R \in shuffle_playlist(pl) :
       Perform(R, Call("shuffle_playlist", <<>>, None, Null))

Next ==
  \/ \E song \in Songs : AddSongAtEnd(song)
  \/ \E song \in Songs : AddSongAtBeginning(song)
  \/ \E t \in Targets, song \in Songs : InsertSongAfter(t, song)
  \/ \E t \in Targets, song \in Songs : InsertSongBefore(t, song)
  \/ \E t \in Targets : RemoveSong(t)
  \/ NextSong
  \/ PreviousSong
  \/ GoToFirstSong
  \/ GoToLastSong
  \/ ReversePlaylist
  \/ ShufflePlaylist

Spec == Init /\ [][Next]_vars

\* ------------------------------------------------------------------------
\* PrioritySongQueue driven directly through its methods
\* ------------------------------------------------------------------------
PQEnqueue(song, priority) ==
  /\ Len(party_queue) < MaxQueue
  /\ enq_count < MaxEnqueues
  /\ enq_count' = enq_count + 1
  /\ party_queue' = enqueue(party_queue, song, priority, enq_count + 1)
  /\ ret' = [st |-> "ok", val |-> None]
  /\ last_op' = [name |-> "enqueue", title |-> <<>>, song |-> song,
                 node |-> priority, cursor |-> Null]
  /\ UNCHANGED <<plVars, guiVars>>

PQDequeue ==
  /\ party_queue' = dequeue(party_queue).queue
  /\ ret' = [st |-> "ok", val |-> dequeue(party_queue).ret]
  /\ last_op' = [name |-> "dequeue", title |-> <<>>, song |-> None,
                 node |-> Null, cursor |-> Null]
  /\ UNCHANGED <<plVars, enq_count, guiVars>>

PQClearQueue ==
  /\ party_queue' = clear_queue(party_queue)
  /\ ret' = [st |-> "ok", val |-> None]
  /\ last_op' = [name |-> "clear_queue", title |-> <<>>, song |-> None,
                 node |-> Null, cursor |-> Null]
  /\ UNCHANGED <<plVars, enq_count, guiVars>>

PQUpvote(t) ==
  /\ FirstMatch(party_queue, t) # 0
       => party_queue[FirstMatch(party_queue, t)].priority < MaxPriority
  /\ party_queue' = upvote(party_queue, t).queue
  /\ ret' = [st |-> "ok", val |-> upvote(party_queue, t).ret]
  /\ last_op' = [name |-> "upvote", title |-> t, song |-> None,
                 node |-> FirstMatch(party_queue, t), cursor |-> Null]
  /\ UNCHANGED <<plVars, enq_count, guiVars>>

NextPQ ==
  \/ \E song \in Songs, priority \in 0..MaxPriority : PQEnqueue(song, priority)
  \/ PQDequeue
  \/ PQClearQueue
  \/ \E t \in Targets : PQUpvote(t)

SpecPQ == Init /\ [][NextPQ]_vars

\* ------------------------------------------------------------------------
\* The GUI player (src/main_gui.py): playback and the Playlists tab.
\* The catalog holds one playlist, loaded empty from playlists.json when the
\* program starts; it is the current playlist, the object pl.  The handlers
\* of the Queues tab, the Next button of the Now Playing tab (which
\* falls back on the play-next queue) and those that create, delete, switch
\* or search playlists are outside this specification.  The message banner and the
\* hover flags of the buttons are not part of the state.
\* No handler calls reverse_playlist, so every call made on pl here returns
\* normally (GUIPlaylistSound).
\* ------------------------------------------------------------------------
\* playing_playlist when it refers to the playlist object pl
ThePlaylist == [playlist |-> "pl"]

\* The fields of MusicPlayerStacksQueues and the state of pygame.mixer.music
Player ==
  [currently_playing |-> currently_playing,
   listening_history |-> listening_history,
   mixer |-> mixer]

\* play_song that does not push the song it plays
play_song_NoPush(p, song, loads, unloads) ==
  IF loads
  THEN [currently_playing |-> song,
        listening_history |-> p.listening_history,
        mixer |-> "playing"]
  ELSE [currently_playing |-> None,
        listening_history |-> p.listening_history,
        mixer |-> IF unloads THEN "idle" ELSE p.mixer]

\* play_song that treats a failed load like a successful one
play_song_IgnoresError(p, song, loads, unloads) ==
  [currently_playing |-> song,
   listening_history |-> Append(p.listening_history, song),
   mixer |-> IF loads THEN "playing" ELSE IF unloads THEN "idle" ELSE p.mixer]

\* play_song(song).  loads: pygame.mixer.music.load succeeds; when it raises
\* pygame.error, unloads tells whether it had already stopped the previous
\* track (this depends on the pygame release).
play_song(p, song, loads, unloads) ==
  IF loads
  THEN [currently_playing |-> song,
        listening_history |-> Append(p.listening_history, song),
        mixer |-> "playing"]
  ELSE [currently_playing |-> None,
        listening_history |-> p.listening_history,
        mixer |-> IF unloads THEN "idle" ELSE p.mixer]

\* a stop_song that also forgets the newest history entry
stop_song_PopsHistory(p) ==
  [p EXCEPT !.mixer = "idle", !.currently_playing = None,
            !.listening_history =
               IF p.listening_history = <<>> THEN <<>>
               ELSE SubSeq(p.listening_history, 1, Len(p.listening_history) - 1)]

stop_song(p) == [p EXCEPT !.mixer = "idle", !.currently_playing = None]

\* update_now_playing(): the label shows the playing song; the text of the
\* Play/Pause button is rewritten only while a song is playing
update_now_playing(p, old) ==
  IF p.currently_playing # None
  THEN [label |-> p.currently_playing,
        btn |-> IF p.mixer = "playing" THEN "Pause" ELSE "Play"]
  ELSE [label |-> None, btn |-> old.btn]

\* refresh_history() without a query: most recent first
refresh_history(stack) == Reverse(stack)

\* The songs of a playlist from head to tail
SongsOf(P) == [i \in 1..Len(Fwd(P)) |-> P.song_data[Fwd(P)[i]]]

\* refresh_playlists(): ScrollableList.set_items drops the selection
refresh_playlists(P) == [items |-> SongsOf(P), selected_index |-> -1]

\* save_playlists(): the songs written for the playlist
save_playlists(P) == SongsOf(P)

\* curr = head, then curr = curr.next k times; -1 when a step is taken from None
RECURSIVE NodeAt(_, _, _)
NodeAt(P, curr, k) ==
  IF k = 0 THEN curr
  ELSE IF curr = Null THEN -1
  ELSE NodeAt(P, P.next[curr], k - 1)

\* A call of play_song stays within the bound on the history
CanPlay == Len(listening_history) < MaxHistory

\* The player after a handler, followed by update_now_playing() and
\* refresh_history()
ShowPlayer(p) ==
  /\ currently_playing' = p.currently_playing
  /\ listening_history' = p.listening_history
  /\ mixer' = p.mixer
  /\ now_playing' = update_now_playing(p, now_playing)
  /\ history_display' = refresh_history(p.listening_history)

playerVars == <<currently_playing, listening_history, mixer, now_playing,
                history_display>>

\* A click that reaches the handlers of the tabs
UserClick ==
  /\ ~hung
  /\ modal = None
  /\ end_run' = 0

\* Library tab: click on a song
ClickLibrarySong(song, loads, unloads) ==
  /\ UserClick
  /\ CanPlay
  /\ ShowPlayer(play_song(Player, song, loads, unloads))
  /\ playing_playlist' = None
  /\ UNCHANGED <<pl, music_end_pending, modal, playlist_songs_list,
                 playlists_json, apiVars>>

\* Playlists tab: click on the song at index i of the song list
ClickPlaylistSong(i, loads, unloads) ==
  /\ UserClick
  /\ CanPlay
  /\ i < Len(playlist_songs_list.items)
  /\ NodeAt(pl, pl.head, i) # -1
  /\ pl' = Collect([pl EXCEPT !.current_node = NodeAt(pl, pl.head, i)])
  /\ playlist_songs_list' = [playlist_songs_list EXCEPT !.selected_index = i]
  /\ ShowPlayer(play_song(Player, playlist_songs_list.items[i + 1], loads, unloads))
  /\ playing_playlist' = ThePlaylist
  /\ UNCHANGED <<music_end_pending, modal, playlists_json, apiVars>>

\* Playlists tab: Add Song opens the song selection
ClickAddSong ==
  /\ UserClick
  /\ modal' = [type |-> "song_select", on_select |-> "add_song", target |-> <<>>]
  /\ UNCHANGED <<pl, playing_playlist, playerVars, music_end_pending,
                 playlist_songs_list, playlists_json, apiVars>>

\* Playlists tab: Insert After opens the song selection when the cursor is set
ClickInsertAfter ==
  /\ UserClick
  /\ modal' = IF get_current_song(pl) # None
              THEN [type |-> "song_select", on_select |-> "insert_after",
                    target |-> get_current_song(pl).title]
              ELSE modal
  /\ UNCHANGED <<pl, playing_playlist, playerVars, music_end_pending,
                 playlist_songs_list, playlists_json, apiVars>>

\* handle_modal: a song of the selection is clicked.  The callbacks are
\*   add_song_to_current_playlist(song) or refresh_playlists() or save_playlists() ...
\*   insert_song_after(target, song)    or refresh_playlists() or save_playlists() ...
\* so a call that returns True is followed by neither refresh nor save.
ModalSelectSong(song) ==
  /\ ~hung
  /\ modal # None
  /\ modal.type = "song_select"
  /\ modal.on_select \in {"add_song", "insert_after"}
  /\ CanGrow(pl)
  /\ pl.size < MaxPlaylist
  /\ end_run' = 0
  /\ modal' = None
  /\ LET R == IF modal.on_select = "add_song"
              THEN add_song_at_end(pl, song)
              ELSE insert_song_after(pl, modal.target, song)
         done == modal.on_select = "add_song" \/ R.ret = True
     IN /\ pl' = R.pl
        /\ playlist_songs_list' =
             IF done THEN playlist_songs_list ELSE refresh_playlists(R.pl)
        /\ playlists_json' =
             IF done THEN playlists_json ELSE save_playlists(R.pl)
  /\ UNCHANGED <<playing_playlist, playerVars, music_end_pending, apiVars>>

\* handle_modal: Cancel
ModalCancel ==
  /\ ~hung
  /\ modal # None
  /\ end_run' = 0
  /\ modal' = None
  /\ UNCHANGED <<pl, playing_playlist, playerVars, music_end_pending,
                 playlist_songs_list, playlists_json, apiVars>>

\* Playlists tab: Remove Song removes by the title of the selected entry
ClickRemoveSong ==
  /\ UserClick
  /\ playlist_songs_list.selected_index >= 0
  /\ LET title == playlist_songs_list.items[playlist_songs_list.selected_index + 1].title
         R == remove_song(pl, title)
     IN /\ pl' = R.pl
        /\ playlist_songs_list' = refresh_playlists(R.pl)
        /\ playlists_json' = save_playlists(R.pl)
  /\ UNCHANGED <<playing_playlist, playerVars, music_end_pending, modal, apiVars>>

\* Playlists tab: Shuffle
ClickShuffle ==
  /\ UserClick
  /\ \E R \in shuffle_playlist(pl) :
       /\ R.st = "ok"
       /\ pl' = R.pl
       /\ playlist_songs_list' = refresh_playlists(R.pl)
       /\ playlists_json' = save_playlists(R.pl)
  /\ UNCHANGED <<playing_playlist, playerVars, music_end_pending, modal, apiVars>>

\* Playlists tab: Play Playlist
ClickPlayPlaylist(loads, unloads) ==
  /\ UserClick
  /\ LET P1 == IF get_current_song(pl) = None THEN go_to_first_song(pl).pl ELSE pl
         song == get_current_song(P1)
     IN /\ pl' = P1
        /\ IF song # None
           THEN /\ CanPlay
                /\ ShowPlayer(play_song(Player, song, loads, unloads))
                /\ playing_playlist' = ThePlaylist
           ELSE UNCHANGED <<playing_playlist, playerVars>>
  /\ UNCHANGED <<music_end_pending, modal, playlist_songs_list, playlists_json,
                 apiVars>>

\* Playlists tab: First Song, Last Song, Next Song, Prev Song
ClickMoveCursor(R) ==
  /\ UserClick
  /\ pl' = R.pl
  /\ playlist_songs_list' = refresh_playlists(R.pl)
  /\ UNCHANGED <<playing_playlist, playerVars, music_end_pending, modal,
                 playlists_json, apiVars>>

ClickFirstSong ==
  /\ ~hung
  /\ ClickMoveCursor(go_to_first_song(pl))

ClickLastSong ==
  /\ ~hung
  /\ ClickMoveCursor(go_to_last_song(pl))

ClickNextSong ==
  /\ ~hung
  /\ ClickMoveCursor(next_song(pl))

ClickPrevSong ==
  /\ ~hung
  /\ ClickMoveCursor(previous_song(pl))

\* Now Playing tab: Play/Pause.  get_busy() is true only while the track is
\* actually playing; unpause() does nothing when nothing is paused.
ClickPlayPause ==
  /\ UserClick
  /\ mixer' = CASE mixer = "playing" -> "paused"
                [] mixer = "paused" -> "playing"
                [] OTHER -> mixer
  /\ now_playing' = update_now_playing([Player EXCEPT !.mixer = mixer'], now_playing)
  /\ UNCHANGED <<pl, playing_playlist, currently_playing, listening_history,
                 history_display, music_end_pending, modal, playlist_songs_list,
                 playlists_json, apiVars>>

\* Now Playing tab: Stop.  pygame.mixer.music.stop() posts the end event when
\* it stops a track.
ClickStop ==
  /\ UserClick
  /\ mixer = "idle" \/ music_end_pending < MaxPending
  /\ music_end_pending' = IF mixer = "idle" THEN music_end_pending
                          ELSE music_end_pending + 1
  /\ currently_playing' = stop_song(Player).currently_playing
  /\ mixer' = stop_song(Player).mixer
  /\ playing_playlist' = None
  /\ now_playing' = update_now_playing(stop_song(Player), now_playing)
  /\ UNCHANGED <<pl, listening_history, history_display, modal,
                 playlist_songs_list, playlists_json, apiVars>>

\* Now Playing tab: Prev
ClickPrev(loads, unloads) ==
  /\ UserClick
  /\ IF playing_playlist # None
     THEN LET P1 == previous_song(pl).pl
              song == get_current_song(P1)
          IN /\ pl' = P1
             /\ IF song # None
                THEN /\ CanPlay
                     /\ ShowPlayer(play_song(Player, song, loads, unloads))
                ELSE UNCHANGED playerVars
     ELSE UNCHANGED <<pl, playerVars>>
  /\ UNCHANGED <<playing_playlist, music_end_pending, modal, playlist_songs_list,
                 playlists_json, apiVars>>

\* The track being played reaches its end: pygame posts MUSIC_END
TrackFinished ==
  /\ ~hung
  /\ mixer = "playing"
  /\ music_end_pending < MaxPending
  /\ mixer' = "idle"
  /\ music_end_pending' = music_end_pending + 1
  /\ UNCHANGED <<pl, playing_playlist, currently_playing, listening_history,
                 now_playing, history_display, modal, playlist_songs_list,
                 playlists_json, end_run, apiVars>>

\* handle_events: the MUSIC_END branch.  An open modal does not keep the
\* event from this branch.
HandleMusicEnd(loads, unloads) ==
  /\ ~hung
  /\ music_end_pending > 0
  /\ music_end_pending' = music_end_pending - 1
  /\ IF playing_playlist # None
     THEN LET P1 == next_song(pl).pl
              song == get_current_song(P1)
              p == IF song # None THEN play_song(Player, song, loads, unloads)
                   ELSE Player
          IN /\ song # None => CanPlay
             /\ pl' = P1
             /\ playing_playlist' = IF song # None THEN playing_playlist ELSE None
             /\ end_run' = IF song # None /\ loads THEN end_run + 1 ELSE 0
             /\ ShowPlayer(p)
     ELSE UNCHANGED <<pl, playing_playlist, playerVars, end_run>>
  /\ UNCHANGED <<modal, playlist_songs_list, playlists_json, apiVars>>

NextGUI ==
  \/ \E song \in Library, loads, unloads \in BOOLEAN :
       ClickLibrarySong(song, loads, unloads)
  \/ \E i \in 0..(MaxPlaylist - 1), loads, unloads \in BOOLEAN :
       ClickPlaylistSong(i, loads, unloads)
  \/ ClickAddSong
  \/ ClickInsertAfter
  \/ \E song \in Library : ModalSelectSong(song)
  \/ ModalCancel
  \/ ClickRemoveSong
  \/ ClickShuffle
  \/ \E loads, unloads \in BOOLEAN : ClickPlayPlaylist(loads, unloads)
  \/ ClickFirstSong
  \/ ClickLastSong
  \/ ClickNextSong
  \/ ClickPrevSong
  \/ ClickPlayPause
  \/ ClickStop
  \/ \E loads, unloads \in BOOLEAN : ClickPrev(loads, unloads)
  \/ TrackFinished
  \/ \E loads, unloads \in BOOLEAN : HandleMusicEnd(loads, unloads)

SpecGUI == Init /\ [][NextGUI]_vars

\* Every playlist the GUI handles has consistent links, and the song list
\* never shows more entries than the playlist has nodes
GUIPlaylistSound ==
  /\ WellFormed(pl)
  /\ Len(playlist_songs_list.items) <= pl.size

\* ------------------------------------------------------------------------
\* Properties of LinkedListPlaylist (specification Spec)
\* ------------------------------------------------------------------------
\* The nodes of a sequence of nodes, as a set
Range(f) == {f[i] : i \in 1..Len(f)}

\* C1: after any sequence of add, insert, remove, shuffle and reverse calls,
\* following next from head ends, size is the number of nodes it visits and
\* the number of nodes visited by following previous from tail, and the
\* backward traversal is the forward traversal reversed.
C1_SizeMatchesTraversals ==
  ~hung =>
    /\ ~Cyclic(pl)
    /\ pl.size = Len(Fwd(pl))
    /\ pl.size = Len(Bwd(pl))
    /\ Bwd(pl) = Reverse(Fwd(pl))

\* C2: after any sequence of playlist calls the cursor is unset or a node
\* reachable from head by following next.
C2_CursorIsMember ==
  ~hung => (pl.current_node = Null \/ pl.current_node \in Range(Fwd(pl)))

\* C3: a remove_song call that removes the node under the cursor leaves the
\* cursor on that node's successor (its next) if it has one, else on its
\* predecessor (its previous) if it has one, else unset; a call that removes
\* another node leaves the cursor where it was.
C3_RemoveRelocatesCursor ==
  [][(last_op'.name = "remove_song" /\ ret'.st = "ok" /\ ret'.val = True) =>
       LET removed == FindTitle(pl, pl.head, last_op'.title, Fuel)
       IN /\ removed \in Allocated(pl)
          /\ IF pl.current_node = removed
             THEN pl'.current_node =
                    (IF pl.next[removed] # Null THEN pl.next[removed]
                     ELSE pl.previous[removed])
             ELSE pl'.current_node = pl.current_node]_vars

\* C3 witness: remove_song has removed the node under the cursor, which had
\* no successor, and the cursor now is on the predecessor, the new tail.
C3_Witness ==
  /\ last_op.name = "remove_song"
  /\ ret.val = True
  /\ last_op.node = last_op.cursor
  /\ WellFormed(pl)
  /\ pl.current_node # Null
  /\ pl.current_node = pl.tail
  /\ pl.size >= 2

\* The first node in head-to-tail order whose title equals t ignoring case
\* (0 if there is none among the nodes reachable from head)
FirstTitleIndex(P, t) ==
  LET F == Fwd(P)
      hits == {i \in 1..Len(F) : lower(P.song_data[F[i]].title) = lower(t)}
  IN IF hits = {} THEN 0 ELSE CHOOSE i \in hits : \A j \in hits : i <= j

\* The sequence s with x put in after position i (i = 0: in front)
InsertAt(s, i, x) == SubSeq(s, 1, i) \o <<x>> \o SubSeq(s, i + 1, Len(s))

\* C9: insert_song_after(t, s) with a matching node puts a new node holding
\* s right after the first match in head-to-tail order (the new tail if the
\* match was the tail), insert_song_before(t, s) right before it (the new
\* head if the match was the head); the other nodes keep their order, size
\* grows by 1, the cursor stays and the call returns true.
C9_InsertNextToFirstMatch ==
  [][LET t == last_op'.title
         s == last_op'.song
         i == FirstTitleIndex(pl, t)
         F == Fwd(pl)
         F2 == Fwd(pl')
     IN /\ (last_op'.name = "insert_song_after" /\ i # 0) =>
             /\ ret'.st = "ok" /\ ret'.val = True
             /\ Len(F2) = Len(F) + 1
             /\ F2 = InsertAt(F, i, F2[i + 1])
             /\ F2[i + 1] \notin Range(F)
             /\ pl'.song_data[F2[i + 1]] = s
             /\ \A k \in 1..Len(F) : pl'.song_data[F[k]] = pl.song_data[F[k]]
             /\ (pl.tail = F[i]) => (pl'.tail = F2[i + 1])
             /\ pl'.size = pl.size + 1
             /\ pl'.current_node = pl.current_node
        /\ (last_op'.name = "insert_song_before" /\ i # 0) =>
             /\ ret'.st = "ok" /\ ret'.val = True
             /\ Len(F2) = Len(F) + 1
             /\ F2 = InsertAt(F, i - 1, F2[i])
             /\ F2[i] \notin Range(F)
             /\ pl'.song_data[F2[i]] = s
             /\ \A k \in 1..Len(F) : pl'.song_data[F[k]] = pl.song_data[F[k]]
             /\ (pl.head = F[i]) => (pl'.head = F2[i])
             /\ pl'.size = pl.size + 1
             /\ pl'.current_node = pl.current_node]_vars

\* C10: insert_song_after, insert_song_before and remove_song on an empty
\* playlist or with a title that no node has return false, raise nothing
\* and leave nodes, links, head, tail, size and cursor as they were.
C10_NoMatchNoChange ==
  [][(/\ last_op'.name \in {"insert_song_after", "insert_song_before", "remove_song"}
       /\ FirstTitleIndex(pl, last_op'.title) = 0) =>
         /\ ret'.st = "ok"
         /\ ret'.val = False
         /\ pl' = pl]_vars

\* ------------------------------------------------------------------------
\* Properties of PrioritySongQueue (specification SpecPQ)
\* ------------------------------------------------------------------------
\* C6: after any sequence of enqueue, upvote, dequeue and clear_queue calls
\* the stored sequence is non-increasing by priority.
C6_SortedByPriority ==
  \A i \in 1..Len(party_queue), j \in 1..Len(party_queue) :
     i < j => party_queue[i].priority >= party_queue[j].priority

\* C6 witness: an upvote has moved the second entry in front of an entry
\* that was enqueued before it.
C6_Witness ==
  /\ last_op.name = "upvote"
  /\ last_op.node = 2
  /\ Len(party_queue) >= 2
  /\ party_queue[1].priority > party_queue[2].priority
  /\ party_queue[1].seq > party_queue[2].seq

PosOf(q, k) == CHOOSE i \in 1..Len(q) : q[i].seq = k

Seqs(q) == {q[i].seq : i \in 1..Len(q)}

PriorityOf(q, k) == q[PosOf(q, k)].priority

SongCount(q, song) == Cardinality({i \in 1..Len(q) : q[i].song = song})

\* C8: upvote(title) raises the priority of the first entry in stored order
\* whose title equals title ignoring case by exactly 1, changes no other
\* priority, keeps the songs and the relative order of every two other
\* entries and returns true; without a match it returns false and the queue
\* is unchanged.
C8_UpvoteFirstMatch ==
  [][last_op'.name = "upvote" =>
         LET hits == {i \in 1..Len(party_queue) :
                        lower(party_queue[i].song.title) = lower(last_op'.title)}
         IN IF hits = {}
            THEN ret'.val = False /\ party_queue' = party_queue
            ELSE
              LET first == CHOOSE i \in hits : \A j \in hits : i <= j
                  k == party_queue[first].seq
              IN /\ ret'.val = True
                 /\ Len(party_queue') = Len(party_queue)
                 /\ Seqs(party_queue') = Seqs(party_queue)
                 /\ \A song \in Songs :
                      SongCount(party_queue', song) = SongCount(party_queue, song)
                 /\ \A a \in Seqs(party_queue) :
                      /\ party_queue'[PosOf(party_queue', a)].song
                           = party_queue[PosOf(party_queue, a)].song
                      /\ PriorityOf(party_queue', a) =
                           PriorityOf(party_queue, a) + (IF a = k THEN 1 ELSE 0)
                 /\ \A a \in Seqs(party_queue) \ {k}, b \in Seqs(party_queue) \ {k} :
                      PosOf(party_queue, a) < PosOf(party_queue, b)
                        => PosOf(party_queue', a) < PosOf(party_queue', b)]_vars

\* C8 witness: two entries match the title, the first of them was upvoted
\* and has moved to the front past an entry of another title.
C8_Witness ==
  /\ last_op.name = "upvote"
  /\ ret.val = True
  /\ last_op.node = 2
  /\ Len(party_queue) = 3
  /\ lower(party_queue[1].song.title) = lower(last_op.title)
  /\ lower(party_queue[3].song.title) = lower(last_op.title)
  /\ lower(party_queue[2].song.title) # lower(last_op.title)
  /\ party_queue[1].priority > party_queue[3].priority

\* ------------------------------------------------------------------------
\* Properties of the GUI player (specification SpecGUI)
\* ------------------------------------------------------------------------
\* C4: when the MUSIC_END event is handled while a playlist is attached as
\* the playback source: if the cursor has a successor, the cursor advances to
\* it and that song is played (the play request is made: the song becomes
\* the playing song and is pushed on the history, unless loading its file
\* fails); if there is no next song (cursor on the last song, or unset), no
\* song is played and the playlist is detached.
C4_EndOfTrackAdvancesOrDetaches ==
  [][(music_end_pending' < music_end_pending /\ playing_playlist # None) =>
       IF pl.current_node # Null /\ pl.next[pl.current_node] # Null
       THEN /\ pl'.current_node = pl.next[pl.current_node]
            /\ \/ /\ currently_playing' = pl.song_data[pl.next[pl.current_node]]
                  /\ listening_history' =
                       Append(listening_history, pl.song_data[pl.next[pl.current_node]])
                  /\ mixer' = "playing"
               \/ /\ currently_playing' = None
                  /\ listening_history' = listening_history
       ELSE /\ listening_history' = listening_history
            /\ currently_playing' = currently_playing
            /\ mixer' = mixer
            /\ playing_playlist' = None
    ]_vars

\* C5: with a non-empty playlist attached, every play request succeeding and
\* no user action in between, at most as many MUSIC_END events as the
\* playlist has songs are handled before no playlist is attached: while the
\* playlist is still attached, fewer events than it has songs have been
\* handled in a row.
C5_DetachesWithinSizeEvents ==
  (playing_playlist # None /\ pl.size > 0) => end_run < pl.size

\* ------------------------------------------------------------------------
\* Cursor moves of LinkedListPlaylist (specification Spec)
\* ------------------------------------------------------------------------
\* C11: next_song() moves the cursor to the successor and returns its song
\* when the cursor is set and has a successor; otherwise it returns None
\* and changes nothing.  previous_song() does the same with the predecessor.
\* The playlist does not wrap: next_song() on the tail and previous_song()
\* on the head return None and change nothing.
C11_StepOrStay ==
  [][LET c == pl.current_node
     IN /\ last_op'.name = "next_song" =>
             /\ ret'.st = "ok"
             /\ IF c # Null /\ pl.next[c] # Null
                THEN /\ pl'.current_node = pl.next[c]
                     /\ ret'.val = pl.song_data[pl.next[c]]
                     /\ Fwd(pl') = Fwd(pl)
                     /\ pl'.size = pl.size
                ELSE ret'.val = None /\ pl' = pl
             /\ (c # Null /\ c = pl.tail) => (ret'.val = None /\ pl' = pl)
        /\ last_op'.name = "previous_song" =>
             /\ ret'.st = "ok"
             /\ IF c # Null /\ pl.previous[c] # Null
                THEN /\ pl'.current_node = pl.previous[c]
                     /\ ret'.val = pl.song_data[pl.previous[c]]
                     /\ Fwd(pl') = Fwd(pl)
                     /\ pl'.size = pl.size
                ELSE ret'.val = None /\ pl' = pl
             /\ (c # Null /\ c = pl.head) => (ret'.val = None /\ pl' = pl)]_vars

\* ------------------------------------------------------------------------
\* MusicPlayerStacksQueues driven directly through its methods
\* (specification SpecPlayer)
\* ------------------------------------------------------------------------
\* SongQueue.enqueue, dequeue and clear_queue on the list SongQueue.queue
SongQueue_enqueue(q, song) == Append(q, song)

\* a dequeue that takes the newest song
SongQueue_dequeue_Newest(q) ==
  IF q # <<>> THEN [queue |-> SubSeq(q, 1, Len(q) - 1), ret |-> q[Len(q)]]
  ELSE [queue |-> q, ret |-> None]

SongQueue_dequeue(q) ==
  IF q # <<>> THEN [queue |-> Tail(q), ret |-> Head(q)]
  ELSE [queue |-> q, ret |-> None]

SongQueue_clear_queue(q) == <<>>

\* One call of pygame.mixer.music
AudioCall(call, file, raised) == [call |-> call, file |-> file, raised |-> raised]

\* The pygame.mixer.music calls of play_song(song): load and play, or a
\* call that raises pygame.error
play_song_calls(song, loads) ==
  IF loads
  THEN <<AudioCall("load", song.file_path, FALSE), AudioCall("play", "", FALSE)>>
  ELSE <<AudioCall("load", song.file_path, TRUE)>>

\* The fields of the player after a call
SetPlayer(p) ==
  /\ currently_playing' = p.currently_playing
  /\ listening_history' = p.listening_history
  /\ mixer' = p.mixer

\* What no method of MusicPlayerStacksQueues touches
playerFrame == <<plVars, playing_playlist, music_end_pending, modal,
                 playlist_songs_list, history_display, now_playing,
                 playlists_json, end_run, sqVars, catalogVars>>

\* The call recorded in last_op; the methods return nothing.  The field
\* node holds the priority given to add_to_party_queue.
PlayerCall(name, title, song, priority) ==
  /\ ret' = [st |-> "ok", val |-> None]
  /\ last_op' = [name |-> name, title |-> title, song |-> song,
                 node |-> priority, cursor |-> Null]

\* A call of a method of SongQueue, ListeningHistoryStack or PlaylistManager
\* recorded in last_op, and the value it returned in ret; a returned list is
\* the field songs of a record, args holds a playlist name or a search term
ApiCall(name, args, song, val) ==
  /\ ret' = [st |-> "ok", val |-> val]
  /\ last_op' = [name |-> name, title |-> args, song |-> song, node |-> Null,
                 cursor |-> Null]

PlaySong(song, loads, unloads) ==
  /\ CanPlay
  /\ SetPlayer(play_song(Player, song, loads, unloads))
  /\ audio_log' = play_song_calls(song, loads)
  /\ PlayerCall("play_song", <<>>, song, 0)
  /\ UNCHANGED <<play_next_queue, pqVars, playerFrame>>

\* stop_song(); called outside of the event loop of the GUI, where the end
\* event that pygame posts is read by nobody
StopSong ==
  /\ SetPlayer(stop_song(Player))
  /\ audio_log' = <<AudioCall("stop", "", FALSE)>>
  /\ PlayerCall("stop_song", <<>>, None, 0)
  /\ UNCHANGED <<play_next_queue, pqVars, playerFrame>>

AddToPlayNext(song) ==
  /\ Len(play_next_queue) < MaxWaiting
  /\ play_next_queue' = SongQueue_enqueue(play_next_queue, song)
  /\ audio_log' = <<>>
  /\ PlayerCall("add_to_play_next", <<>>, song, 0)
  /\ UNCHANGED <<currently_playing, listening_history, mixer, pqVars, playerFrame>>

\* play_next_song that stops the playing song when the queue is empty
PlayNextSong_StopsOnEmpty(loads, unloads) ==
  LET d == SongQueue_dequeue(play_next_queue)
  IN /\ d.ret # None => CanPlay
     /\ play_next_queue' = d.queue
     /\ IF d.ret # None
        THEN /\ SetPlayer(play_song(Player, d.ret, loads, unloads))
             /\ audio_log' = play_song_calls(d.ret, loads)
        ELSE /\ SetPlayer(stop_song(Player))
             /\ audio_log' = <<AudioCall("stop", "", FALSE)>>
     /\ PlayerCall("play_next_song", <<>>, None, 0)
     /\ UNCHANGED <<pqVars, playerFrame>>

PlayNextSong(loads, unloads) ==
  LET d == SongQueue_dequeue(play_next_queue)
  IN /\ d.ret # None => CanPlay
     /\ play_next_queue' = d.queue
     /\ IF d.ret # None
        THEN /\ SetPlayer(play_song(Player, d.ret, loads, unloads))
             /\ audio_log' = play_song_calls(d.ret, loads)
        ELSE /\ UNCHANGED <<currently_playing, listening_history, mixer>>
             /\ audio_log' = <<>>
     /\ PlayerCall("play_next_song", <<>>, None, 0)
     /\ UNCHANGED <<pqVars, playerFrame>>

\* play_next_queue.clear_queue(), as the Clear Next button calls it
ClearPlayNext ==
  /\ play_next_queue' = SongQueue_clear_queue(play_next_queue)
  /\ audio_log' = <<>>
  /\ PlayerCall("play_next_queue.clear_queue", <<>>, None, 0)
  /\ UNCHANGED <<currently_playing, listening_history, mixer, pqVars, playerFrame>>

AddToPartyQueue(song, priority) ==
  /\ Len(party_queue) < MaxWaiting
  /\ enq_count < MaxPartyAdds
  /\ enq_count' = enq_count + 1
  /\ party_queue' = enqueue(party_queue, song, priority, enq_count + 1)
  /\ audio_log' = <<>>
  /\ PlayerCall("add_to_party_queue", <<>>, song, priority)
  /\ UNCHANGED <<currently_playing, listening_history, mixer, play_next_queue,
                 playerFrame>>

PlayFromPartyQueue(loads, unloads) ==
  LET d == dequeue(party_queue)
  IN /\ d.ret # None => CanPlay
     /\ party_queue' = d.queue
     /\ IF d.ret # None
        THEN /\ SetPlayer(play_song(Player, d.ret, loads, unloads))
             /\ audio_log' = play_song_calls(d.ret, loads)
        ELSE /\ UNCHANGED <<currently_playing, listening_history, mixer>>
             /\ audio_log' = <<>>
     /\ PlayerCall("play_from_party_queue", <<>>, None, 0)
     /\ UNCHANGED <<enq_count, play_next_queue, playerFrame>>

UpvoteSongInPartyQueue(song_title) ==
  /\ FirstMatch(party_queue, song_title) # 0
       => party_queue[FirstMatch(party_queue, song_title)].priority < MaxPriority
  /\ party_queue' = upvote(party_queue, song_title).queue
  /\ audio_log' = <<>>
  /\ PlayerCall("upvote_song_in_party_queue", song_title, None, 0)
  /\ UNCHANGED <<currently_playing, listening_history, mixer, enq_count,
                 play_next_queue, playerFrame>>

NextPlayer ==
  \/ \E song \in Library, loads \in BOOLEAN, unloads \in BOOLEAN :
       PlaySong(song, loads, unloads)
  \/ StopSong
  \/ \E song \in Library : AddToPlayNext(song)
  \/ \E loads \in BOOLEAN, unloads \in BOOLEAN : PlayNextSong(loads, unloads)
  \/ ClearPlayNext
  \/ \E song \in Library, priority \in 0..MaxPartyPriority :
       AddToPartyQueue(song, priority)
  \/ \E loads \in BOOLEAN, unloads \in BOOLEAN : PlayFromPartyQueue(loads, unloads)
  \/ \E song_title \in Targets : UpvoteSongInPartyQueue(song_title)

SpecPlayer == Init /\ [][NextPlayer]_vars

\* The load-and-play request of the last call went through: pygame.mixer.music
\* was called and no call raised
AudioSucceeded(log) == log # <<>> /\ \A i \in 1..Len(log) : ~log[i].raised

\* The request of the last call failed: a call raised pygame.error
AudioFailed(log) == \E i \in 1..Len(log) : log[i].raised

\* C12: when the external load-and-play call succeeds, play_song(song) sets
\* currently_playing to song and appends song as the newest history entry;
\* the Play-Next Queue and the Party Queue are unchanged by play_song.
C12_PlaySongSuccess ==
  [][(last_op'.name = "play_song" /\ AudioSucceeded(audio_log')) =>
       /\ ret'.st = "ok"
       /\ currently_playing' = last_op'.song
       /\ listening_history' = Append(listening_history, last_op'.song)
       /\ play_next_queue' = play_next_queue
       /\ party_queue' = party_queue]_vars

C12_Witness ==
  /\ last_op.name = "play_song"
  /\ AudioSucceeded(audio_log)
  /\ currently_playing = last_op.song
  /\ Len(listening_history) >= 2
  /\ listening_history[Len(listening_history)] = last_op.song
  /\ listening_history[Len(listening_history) - 1] # last_op.song
  /\ play_next_queue # <<>>
  /\ party_queue # <<>>

\* C13: when the external load-and-play call fails, play_song(song) does not
\* raise, sets currently_playing to None and leaves the history exactly as
\* it was: the failed song is not recorded.
C13_PlaySongFailure ==
  [][(last_op'.name = "play_song" /\ AudioFailed(audio_log')) =>
       /\ ret'.st = "ok"
       /\ ~hung'
       /\ currently_playing' = None
       /\ listening_history' = listening_history]_vars

C13_Witness ==
  /\ last_op.name = "play_song"
  /\ AudioFailed(audio_log)
  /\ currently_playing = None
  /\ listening_history # <<>>
  /\ \A i \in 1..Len(listening_history) : listening_history[i] # last_op.song

\* ------------------------------------------------------------------------
\* SongQueue driven directly through its methods (specification
\* SpecSongQueue)
\* ------------------------------------------------------------------------
SQEnqueue(song) ==
  /\ Len(enqueued) < MaxFifo
  /\ song_queue' = SongQueue_enqueue(song_queue, song)
  /\ enqueued' = Append(enqueued, song)
  /\ ApiCall("SongQueue.enqueue", <<>>, song, None)
  /\ UNCHANGED <<dequeued, play_next_queue, audio_log, catalogVars, plVars,
                 pqVars,
                 playing_playlist, currently_playing, listening_history, mixer,
                 music_end_pending, modal, playlist_songs_list,
                 history_display, now_playing, playlists_json, end_run>>

SQDequeue ==
  /\ song_queue' = SongQueue_dequeue(song_queue).queue
  /\ dequeued' = IF SongQueue_dequeue(song_queue).ret # None
                 THEN Append(dequeued, SongQueue_dequeue(song_queue).ret)
                 ELSE dequeued
  /\ ApiCall("SongQueue.dequeue", <<>>, None, SongQueue_dequeue(song_queue).ret)
  /\ UNCHANGED <<enqueued, play_next_queue, audio_log, catalogVars, plVars,
                 pqVars,
                 playing_playlist, currently_playing, listening_history, mixer,
                 music_end_pending, modal, playlist_songs_list,
                 history_display, now_playing, playlists_json, end_run>>

SQClearQueue ==
  /\ song_queue' = SongQueue_clear_queue(song_queue)
  /\ enqueued' = <<>>
  /\ dequeued' = <<>>
  /\ ApiCall("SongQueue.clear_queue", <<>>, None, None)
  /\ UNCHANGED <<play_next_queue, audio_log, catalogVars, plVars,
                 pqVars,
                 playing_playlist, currently_playing, listening_history, mixer,
                 music_end_pending, modal, playlist_songs_list,
                 history_display, now_playing, playlists_json, end_run>>

NextSongQueue ==
  \/ \E song \in Songs : SQEnqueue(song)
  \/ SQDequeue
  \/ SQClearQueue

SpecSongQueue == Init /\ [][NextSongQueue]_vars

\* C14: the Play-Next Queue (a SongQueue) is strict FIFO.  At every moment
\* the songs enqueued so far are the songs dequeue has returned, in the
\* order it returned them, followed by the songs still stored, in stored
\* order; dequeue on an empty queue returns None and changes nothing; and
\* clear_queue leaves size 0.
C14_StrictFifo ==
  [][/\ enqueued' = dequeued' \o song_queue'
     /\ (last_op'.name = "SongQueue.dequeue" /\ song_queue = <<>>) =>
          (ret'.val = None /\ ret'.st = "ok" /\ song_queue' = song_queue)
     /\ (last_op'.name = "SongQueue.dequeue" /\ song_queue # <<>>) =>
          (ret'.val = enqueued[Len(dequeued) + 1] /\ Len(song_queue') = Len(song_queue) - 1)
     /\ last_op'.name = "SongQueue.clear_queue" => Len(song_queue') = 0]_vars

C14_Witness ==
  /\ last_op.name = "SongQueue.dequeue"
  /\ Len(dequeued) = 2
  /\ dequeued[1] # dequeued[2]
  /\ ret.val = dequeued[2]
  /\ Len(song_queue) = 2
  /\ song_queue[1] # song_queue[2]

IsPrefix(s, t) == Len(s) <= Len(t) /\ SubSeq(t, 1, Len(s)) = s

\* The methods of the player that ask pygame to play a song
PlayMethods == {"play_song", "play_next_song", "play_from_party_queue"}

\* C15: the history is append-only.  Across every call of a method of the
\* player (play, stop, play-next, play-from-party, the two enqueues, clear,
\* upvote) the history before the call is a prefix of the history after it;
\* it grows by exactly one entry when the call played a song successfully
\* and by none otherwise.
C15_HistoryAppendOnly ==
  [][/\ IsPrefix(listening_history, listening_history')
     /\ Len(listening_history') - Len(listening_history) =
          IF last_op'.name \in PlayMethods /\ AudioSucceeded(audio_log')
          THEN 1 ELSE 0]_vars

C15_Witness ==
  /\ last_op.name = "play_from_party_queue"
  /\ AudioSucceeded(audio_log)
  /\ Len(listening_history) = MaxHistory
  /\ currently_playing = listening_history[MaxHistory]
  /\ listening_history[1] # listening_history[MaxHistory]

\* The same law for the handlers of the GUI, the end-of-track handler
\* included (specification SpecGUI): every handler keeps the history as a
\* prefix, adds at most one entry, and adds one only together with a song
\* that starts playing
GUIHistoryAppendOnly ==
  [][/\ IsPrefix(listening_history, listening_history')
     /\ Len(listening_history') - Len(listening_history) \in {0, 1}
     /\ Len(listening_history') > Len(listening_history) =>
          /\ mixer' = "playing"
          /\ currently_playing' = listening_history'[Len(listening_history')]
     /\ (music_end_pending' < music_end_pending /\ mixer' # "playing") =>
          listening_history' = listening_history]_vars

\* ------------------------------------------------------------------------
\* ListeningHistoryStack driven directly through push and search_history
\* (specification SpecSearch)
\* ------------------------------------------------------------------------
\* Songs with longer titles and artists
SearchSongs ==
  {[title |-> <<"a", "b">>, artist |-> <<"X">>, file_path |-> "ab.mp3"],
   [title |-> <<"B">>, artist |-> <<"x", "A">>, file_path |-> "B.mp3"],
   [title |-> <<"A", "Σ", "B">>, artist |-> <<"y">>, file_path |-> "ASB.mp3"]}

\* Search terms; the empty term is contained in every string
Queries == {<<>>, <<"a">>, <<"A">>, <<"a", "b">>, <<"A", "B">>, <<"x">>,
            <<"z">>, <<"A", "Σ">>, <<"a", "σ">>}

\* Contains(sub, str) is `sub in str`
search_history(stack, query) ==
  LET Contains(sub, str) ==
        \E k \in 0..(Len(str) - Len(sub)) : SubSeq(str, k + 1, k + Len(sub)) = sub
      Test(song) == \/ Contains(lower(query), lower(song.title))
                    \/ Contains(lower(query), lower(song.artist))
  IN SelectSeq(stack, Test)

HistoryPush(song) ==
  /\ Len(listening_history) < MaxHistory
  /\ listening_history' = Append(listening_history, song)
  /\ ApiCall("push", <<>>, song, None)
  /\ UNCHANGED <<plVars, pqVars, queueVars, catalogVars, playing_playlist,
                 currently_playing, mixer, music_end_pending, modal, playlist_songs_list,
                 history_display, now_playing, playlists_json, end_run>>

HistorySearch(query) ==
  /\ ApiCall("search_history", query, None,
                 [songs |-> search_history(listening_history, query)])
  /\ UNCHANGED <<plVars, pqVars, queueVars, catalogVars, playing_playlist,
                 currently_playing, listening_history, mixer, music_end_pending, modal,
                 playlist_songs_list, history_display, now_playing,
                 playlists_json, end_run>>

NextSearch ==
  \/ \E song \in SearchSongs : HistoryPush(song)
  \/ \E query \in Queries : HistorySearch(query)

SpecSearch == Init /\ [][NextSearch]_vars

\* C16: search_history(query) returns exactly the history entries whose
\* title or artist contains query case-insensitively, in oldest-first
\* storage order; it does not modify the history; it gives the same result
\* for two queries that differ only in letter case, and when repeated.
\* SameLetter: two characters are the same letter in whatever case or form;
\* DifferOnlyInCase: two strings differ at most in the case of letters.
C16_SearchHistory ==
  [][last_op'.name = "search_history" =>
       LET query == last_op'.title
           Fold(e) == IF e = "ς" THEN "σ" ELSE LowerChar(e)
           SameLetter(c, d) == Fold(c) = Fold(d)
           DifferOnlyInCase(s, t) ==
             /\ Len(s) = Len(t)
             /\ \A i \in 1..Len(s) :
                  s[i] = t[i] \/ LowerChar(s[i]) = t[i] \/ s[i] = LowerChar(t[i])
           ContainsIgnoringCase(sub, str) ==
             \E k \in 0..(Len(str) - Len(sub)) :
                \A i \in 1..Len(sub) : SameLetter(sub[i], str[k + i])
           Matches(song) == \/ ContainsIgnoringCase(query, song.title)
                            \/ ContainsIgnoringCase(query, song.artist)
       IN /\ ret'.st = "ok"
          /\ ret'.val.songs = SelectSeq(listening_history, Matches)
          /\ listening_history' = listening_history
          /\ \A q2 \in Queries :
               DifferOnlyInCase(query, q2) =>
                 search_history(listening_history, q2) = ret'.val.songs
          /\ search_history(listening_history', query) = ret'.val.songs]_vars

\* ------------------------------------------------------------------------
\* reverse_playlist and shuffle_playlist (specification Spec)
\* ------------------------------------------------------------------------
\* C17: on a playlist whose links are sound, one reverse_playlist() returns
\* and yields exactly the reversed forward order with size unchanged; a
\* second one reproduces the original forward order; after one or two
\* applications the cursor is on a node that holds the same song as before.
C17_ReverseInvolution ==
  [][(last_op'.name = "reverse_playlist" /\ WellFormed(pl)) =>
       LET twice == reverse_playlist(pl')
           SameSong(P) ==
             pl.current_node # Null =>
               /\ P.current_node # Null
               /\ P.song_data[P.current_node] = pl.song_data[pl.current_node]
       IN /\ ret'.st = "ok"
          /\ SongsOf(pl') = Reverse(SongsOf(pl))
          /\ pl'.size = pl.size
          /\ SameSong(pl')
          /\ twice.st = "ok"
          /\ SongsOf(twice.pl) = SongsOf(pl)
          /\ SameSong(twice.pl)]_vars

\* C18: for every outcome of the random swaps, shuffle_playlist() returns
\* and leaves a playlist whose forward traversal is a permutation of the
\* songs it held before (same multiset, same size) and, when the playlist
\* is not empty, whose cursor is the new head.
C18_ShufflePermutes ==
  [][last_op'.name = "shuffle_playlist" =>
       LET Count(s, x) == Cardinality({i \in 1..Len(s) : s[i] = x})
       IN /\ ret'.st = "ok"
          /\ \A x \in Songs : Count(SongsOf(pl'), x) = Count(SongsOf(pl), x)
          /\ pl'.size = pl.size
          /\ Len(SongsOf(pl')) = pl'.size
          /\ pl.size > 0 => (pl'.head # Null /\ pl'.current_node = pl'.head)]_vars

\* ------------------------------------------------------------------------
\* PlaylistManager driven directly through its methods, after the
\* load_playlists() call of the GUI start (specification SpecCatalog)
\* ------------------------------------------------------------------------
\* A string held in a field that can also be None
Name(n) == [name |-> n]

\* The fields of the PlaylistManager object
Manager == [playlists |-> playlists, current_playlist_name |-> current_playlist_name]

Keys(M) == {M.playlists[i].name : i \in 1..Len(M.playlists)}

\* The index of the entry stored under name n
IndexOf(M, n) == CHOOSE i \in 1..Len(M.playlists) : M.playlists[i].name = n

\* A returned value together with the manager after the call
Managed(M, r) == [m |-> M, ret |-> r]

create_playlist(M, n) ==
  IF n \in Keys(M) THEN Managed(M, False)
  ELSE Managed([playlists |-> Append(M.playlists,
                                     [name |-> n, playlist |-> NewPlaylist]),
                current_playlist_name |-> Name(n)], True)

\* delete_playlist that keeps current_playlist_name
delete_playlist_KeepsCurrent(M, n) ==
  IF n \notin Keys(M) THEN Managed(M, False)
  ELSE Managed([M EXCEPT !.playlists = SelectSeq(M.playlists, LAMBDA e : e.name # n)],
               True)

\* delete_playlist that unsets the current selection whatever it was
delete_playlist_UnsetsCurrent(M, n) ==
  IF n \notin Keys(M) THEN Managed(M, False)
  ELSE Managed([playlists |-> SelectSeq(M.playlists, LAMBDA e : e.name # n),
                current_playlist_name |-> None], True)

delete_playlist(M, n) ==
  IF n \notin Keys(M) THEN Managed(M, False)
  ELSE Managed([playlists |-> SelectSeq(M.playlists, LAMBDA e : e.name # n),
                current_playlist_name |->
                  IF M.current_playlist_name = Name(n) THEN None
                  ELSE M.current_playlist_name], True)

\* switch_playlist that does not look the name up
switch_playlist_Unchecked(M, n) ==
  Managed([M EXCEPT !.current_playlist_name = Name(n)], True)

switch_playlist(M, n) ==
  IF n \notin Keys(M) THEN Managed(M, False)
  ELSE Managed([M EXCEPT !.current_playlist_name = Name(n)], True)

\* get_current_playlist that takes only None for "no selection"
get_current_playlist_AnyName(M) ==
  IF M.current_playlist_name = None THEN None
  ELSE IF M.current_playlist_name.name \in Keys(M)
  THEN [playlist |-> M.current_playlist_name.name]
  ELSE None

\* get_current_playlist(): the playlist object is named by its key.
\* `not self.current_playlist_name` is true for None and for ""
get_current_playlist(M) ==
  IF M.current_playlist_name = None \/ M.current_playlist_name = Name("") THEN None
  ELSE IF M.current_playlist_name.name \in Keys(M)
  THEN [playlist |-> M.current_playlist_name.name]
  ELSE None

\* playlist.add_song_at_end(song) on the object stored under name n
AddAtEnd(M, n, song) ==
  [M EXCEPT !.playlists[IndexOf(M, n)].playlist = add_song_at_end(@, song).pl]

add_song_to_current_playlist(M, song) ==
  LET current_playlist == get_current_playlist(M)
  IN IF current_playlist = None THEN Managed(M, False)
     ELSE Managed(AddAtEnd(M, current_playlist.playlist, song), True)

\* song_library[-max_songs:]: a slice that takes the last entries
Slice_Last(s, m) ==
  IF m >= Len(s) \/ m <= 0 THEN s ELSE SubSeq(s, Len(s) - m + 1, Len(s))

\* song_library[:max_songs]
Slice(s, m) ==
  IF m >= Len(s) THEN s
  ELSE IF m >= 0 THEN SubSeq(s, 1, m)
  ELSE IF Len(s) + m > 0 THEN SubSeq(s, 1, Len(s) + m)
  ELSE <<>>

RECURSIVE AddAll(_, _, _)
AddAll(M, n, songs) ==
  IF songs = <<>> THEN M ELSE AddAll(AddAtEnd(M, n, Head(songs)), n, Tail(songs))

create_playlist_from_library(M, n, song_library, max_songs) ==
  LET c == create_playlist(M, n)
  IN IF c.ret = False THEN Managed(M, False)
     ELSE IF song_library = <<>> THEN Managed(c.m, False)
     ELSE Managed(AddAll(c.m, n, Slice(song_library, max_songs)), True)

\* The descriptions playlist_descriptions can hold
Descriptions == {"", "d"}

\* load_playlists: the loop over the entries of playlists.json, in the order
\* of its statements: create_playlist(name), playlist_descriptions[name] =
\* desc, pl = get_current_playlist(), then the loop over the songs.  A song
\* without the key file_path raises KeyError; pl.add_song_at_end raises
\* AttributeError when pl is None; the handler around the whole method ends
\* the loading at the first error and keeps what was done before it.
\* switch_playlist(None) changes nothing: None is not a key.  Only the songs
\* whose file is in the library are added.
RECURSIVE LoadEntries(_, _, _)
LoadEntries(M, D, data) ==
  IF data = <<>> THEN [m |-> M, d |-> D, ret |-> "ok"]
  ELSE LET e == Head(data)
           c == create_playlist(M, e.name).m
           D1 == [D EXCEPT ![e.name] = Name(e.description)]
           current == get_current_playlist(c)
           InLibrary(s) == \E l \in Library : l.file_path = s.file_path
           Raises(s) == \/ "file_path" \notin DOMAIN s
                        \/ (InLibrary(s) /\ current = None)
           bad == {k \in 1..Len(e.songs) : Raises(e.songs[k])}
           first == IF bad = {} THEN Len(e.songs) + 1
                    ELSE CHOOSE k \in bad : \A j \in bad : k <= j
           added == SelectSeq(SubSeq(e.songs, 1, first - 1), InLibrary)
           c2 == IF added = <<>> THEN c ELSE AddAll(c, current.playlist, added)
       IN IF bad # {} THEN [m |-> c2, d |-> D1, ret |-> "raise"]
          ELSE LoadEntries(c2, D1, Tail(data))

load_playlists(M, D, data) ==
  LET l == LoadEntries(M, D, data)
  IN IF l.ret = "ok" /\ data # <<>>
     THEN [l EXCEPT !.m = switch_playlist(l.m, data[1].name).m]
     ELSE l

\* The contents playlists.json can have: up to MaxCatalog playlists with
\* different names; SongA2 is a song whose file is not in the library, and
\* the last list ends with an entry that has no file_path
FileData ==
  LET FileSongs == {<<>>, <<SongA>>, <<SongA2, SongB>>,
                    <<SongB, [title |-> <<"a">>, artist |-> <<"X">>]>>}
  IN {<<>>}
     \cup {<<[name |-> n, description |-> d, songs |-> s]>> :
             n \in Names, d \in Descriptions, s \in FileSongs}
     \cup UNION {{<<[name |-> n1, description |-> d, songs |-> s1],
                    [name |-> n2, description |-> "", songs |-> s2]>> :
                     n2 \in Names \ {n1}, d \in Descriptions, s1 \in FileSongs,
                     s2 \in {<<>>, <<SongA>>}} :
                  n1 \in Names}

\* refresh_playlists(): the names of the catalog and, when
\* get_current_playlist() gives a playlist, its songs
RefreshCatalog(M, songs_list) ==
  [playlists_list |-> [items |-> [i \in 1..Len(M.playlists) |-> M.playlists[i].name],
                       selected_index |-> -1],
   playlist_songs_list |->
     IF get_current_playlist(M) = None THEN songs_list
     ELSE refresh_playlists(M.playlists[IndexOf(M, get_current_playlist(M).playlist)].playlist)]

\* save_playlists(): for every playlist its description, '' when none is
\* stored, and its songs
SaveCatalog(M, D) ==
  [i \in 1..Len(M.playlists) |->
     [name |-> M.playlists[i].name,
      description |-> IF D[M.playlists[i].name] = None THEN ""
                      ELSE D[M.playlists[i].name].name,
      songs |-> save_playlists(M.playlists[i].playlist)]]

\* The variables no step of the catalog touches
catalogFrame == <<plVars, pqVars, queueVars, playing_playlist, currently_playing,
                  listening_history, mixer, music_end_pending, history_display,
                  now_playing, play_next_list>>

\* The manager after a call, with the call and its result; args holds the
\* playlist name given to the call, if it takes one
CatalogCall(M, name, args, song, val) ==
  /\ playlists' = M.playlists
  /\ current_playlist_name' = M.current_playlist_name
  /\ ApiCall(name, args, song, val)
  /\ UNCHANGED <<catalogFrame, playlist_descriptions, playlists_list, modal,
                 playlist_songs_list, playlists_json, end_run>>

\* GUIMusicPlayer.__init__: load_playlists() on the new manager, later
\* refresh_playlists(); data is what playlists.json holds.  ret keeps the
\* data read and whether the loading was ended by an error.
LoadPlaylists(data) ==
  /\ last_op = NoOp
  /\ LET l == load_playlists(Manager, playlist_descriptions, data)
         r == RefreshCatalog(l.m, playlist_songs_list)
     IN /\ playlists' = l.m.playlists
        /\ current_playlist_name' = l.m.current_playlist_name
        /\ playlist_descriptions' = l.d
        /\ playlists_list' = r.playlists_list
        /\ playlist_songs_list' = r.playlist_songs_list
        /\ ApiCall("load_playlists", <<>>, None, [load |-> l.ret, data |-> data])
  /\ UNCHANGED <<catalogFrame, modal, playlists_json, end_run>>

CreatePlaylist(n) ==
  /\ last_op # NoOp
  /\ Len(playlists) < MaxCatalog
  /\ CatalogCall(create_playlist(Manager, n).m, "create_playlist", <<n>>, None,
                 create_playlist(Manager, n).ret)

DeletePlaylist(n) ==
  /\ last_op # NoOp
  /\ CatalogCall(delete_playlist(Manager, n).m, "delete_playlist", <<n>>, None,
                 delete_playlist(Manager, n).ret)

SwitchPlaylist(n) ==
  /\ last_op # NoOp
  /\ CatalogCall(switch_playlist(Manager, n).m, "switch_playlist", <<n>>, None,
                 switch_playlist(Manager, n).ret)

\* switch_playlist(None), the call load_playlists makes: the keys of the
\* catalog are strings, so `None not in self.playlists` holds
SwitchPlaylistNone ==
  /\ last_op # NoOp
  /\ CatalogCall(Manager, "switch_playlist", <<>>, None, False)

GetCurrentPlaylist ==
  /\ last_op # NoOp
  /\ CatalogCall(Manager, "get_current_playlist", <<>>, None,
                 get_current_playlist(Manager))

AddSongToCurrentPlaylist(song) ==
  /\ last_op # NoOp
  /\ get_current_playlist(Manager) # None =>
       playlists[IndexOf(Manager, get_current_playlist(Manager).playlist)].playlist.size
         < MaxPlaylist
  /\ CatalogCall(add_song_to_current_playlist(Manager, song).m,
                 "add_song_to_current_playlist", <<>>, song,
                 add_song_to_current_playlist(Manager, song).ret)

\* The library and max_songs given to the call are kept in last_op.song
CreatePlaylistFromLibrary(n, song_library, max_songs) ==
  /\ last_op # NoOp
  /\ Len(playlists) < MaxCatalog
  /\ CatalogCall(create_playlist_from_library(Manager, n, song_library, max_songs).m,
                 "create_playlist_from_library", <<n>>,
                 [library |-> song_library, max_songs |-> max_songs],
                 create_playlist_from_library(Manager, n, song_library, max_songs).ret)

\* Playlists tab: Create New and Create from Lib open the text dialog for
\* the name and the description
ClickCreate(on_confirm) ==
  /\ UserClick
  /\ last_op # NoOp
  /\ modal' = [type |-> "text", on_confirm |-> on_confirm]
  /\ ApiCall("show_modal_text", <<>>, None, None)
  /\ UNCHANGED <<catalogFrame, playlists, current_playlist_name,
                 playlist_descriptions, playlists_list, playlist_songs_list,
                 playlists_json>>

\* handle_modal: Confirm in the text dialog, with the texts of the two
\* inputs.  The callback of Create New is
\*   create_playlist(name) or playlist_descriptions.update({name: desc})
\*     or refresh_playlists() or save_playlists() or show_message(...)
\* so what follows the first `or` runs only when create_playlist returns
\* False.  The callback of Create from Lib opens the dialog for the number
\* of songs; handle_modal sets modal = None right after the callback, so
\* this second dialog is never shown.
ConfirmText(name, desc) ==
  /\ ~hung
  /\ modal # None
  /\ modal.type = "text"
  /\ name \in Keys(Manager) \/ Len(playlists) < MaxCatalog
  /\ end_run' = 0
  /\ modal' = None
  /\ LET c == create_playlist(Manager, name)
         D == [playlist_descriptions EXCEPT ![name] = Name(desc)]
         r == RefreshCatalog(c.m, playlist_songs_list)
     IN IF modal.on_confirm = "create_new"
        THEN /\ playlists' = c.m.playlists
             /\ current_playlist_name' = c.m.current_playlist_name
             /\ ApiCall("Create New", <<name, desc>>, None, c.ret)
             /\ IF c.ret = True
                THEN UNCHANGED <<playlist_descriptions, playlists_list,
                                 playlist_songs_list, playlists_json>>
                ELSE /\ playlist_descriptions' = D
                     /\ playlists_list' = r.playlists_list
                     /\ playlist_songs_list' = r.playlist_songs_list
                     /\ playlists_json' = SaveCatalog(c.m, D)
        ELSE /\ ApiCall("Create from Lib", <<name, desc>>, None, None)
             /\ UNCHANGED <<playlists, current_playlist_name, playlist_descriptions,
                            playlists_list, playlist_songs_list, playlists_json>>
  /\ UNCHANGED catalogFrame

NextCatalog ==
  \/ \E data \in FileData : LoadPlaylists(data)
  \/ \E n \in Names : CreatePlaylist(n)
  \/ \E n \in Names : DeletePlaylist(n)
  \/ \E n \in Names : SwitchPlaylist(n)
  \/ SwitchPlaylistNone
  \/ GetCurrentPlaylist
  \/ \E song \in Library : AddSongToCurrentPlaylist(song)
  \* get_song_library() returns no song, or the two songs of Library
  \/ \E n \in Names, song_library \in {<<>>, <<SongA, SongB>>},
        max_songs \in (-1)..MaxPlaylist :
       CreatePlaylistFromLibrary(n, song_library, max_songs)

SpecCatalog == Init /\ [][NextCatalog]_vars

\* What no handler of the Playlists tab touches when it acts on the catalog
tabFrame == <<pl, ill_ops, pqVars, queueVars, play_next_list>>

\* The playlist object playing_playlist refers to: an object of the catalog
\* is named by its key, an object the catalog no longer holds is carried in
\* the field orphan
Attached(M, ref) ==
  IF "orphan" \in DOMAIN ref THEN ref.orphan
  ELSE M.playlists[IndexOf(M, ref.playlist)].playlist

\* Playlists tab: click on row i of the list of playlists.  handle_click
\* selects the row; `if pl_selected` is false for the name '', otherwise
\* switch_playlist and refresh_playlists follow, and set_items resets the
\* selection of both lists.
ClickPlaylistRow(i) ==
  /\ UserClick
  /\ last_op # NoOp
  /\ i < Len(playlists_list.items)
  /\ LET name == playlists_list.items[i + 1]
         s == switch_playlist(Manager, name)
         r == RefreshCatalog(s.m, playlist_songs_list)
     IN IF name = ""
        THEN /\ playlists_list' = [playlists_list EXCEPT !.selected_index = i]
             /\ ApiCall("playlist_click", <<name>>, None, None)
             /\ UNCHANGED <<current_playlist_name, playlist_songs_list>>
        ELSE /\ current_playlist_name' = s.m.current_playlist_name
             /\ playlists_list' = r.playlists_list
             /\ playlist_songs_list' = r.playlist_songs_list
             /\ ApiCall("playlist_click", <<name>>, None, s.ret)
  /\ UNCHANGED <<tabFrame, hung, playlists, playlist_descriptions, playing_playlist,
                 playerVars, music_end_pending, modal, playlists_json>>

\* Playlists tab: click on row i of the list of songs.  The cursor of the
\* current playlist goes i steps from head; a step from None raises
\* AttributeError, which ends run(): its finally clause saves the playlists.
ClickCatalogSong(i, loads, unloads) ==
  /\ UserClick
  /\ last_op # NoOp
  /\ Len(listening_history) < MaxCatalogPlays
  /\ i < Len(playlist_songs_list.items)
  /\ playlist_songs_list' = [playlist_songs_list EXCEPT !.selected_index = i]
  /\ LET song_selected == playlist_songs_list.items[i + 1]
         current_pl == get_current_playlist(Manager)
         k == IndexOf(Manager, current_pl.playlist)
         curr == NodeAt(playlists[k].playlist, playlists[k].playlist.head, i)
     IN /\ last_op' = [name |-> "song_click", title |-> <<>>, song |-> song_selected,
                       node |-> i, cursor |-> Null]
        /\ IF current_pl = None
           THEN /\ ret' = [st |-> "ok", val |-> None]
                /\ UNCHANGED <<hung, playlists, playing_playlist, playerVars,
                               playlists_json>>
           ELSE IF curr = -1
           THEN /\ ret' = [st |-> "raise", val |-> None]
                /\ hung' = TRUE
                /\ playlists_json' = SaveCatalog(Manager, playlist_descriptions)
                /\ UNCHANGED <<playlists, playing_playlist, playerVars>>
           ELSE /\ ret' = [st |-> "ok", val |-> None]
                /\ playlists' = [playlists EXCEPT ![k].playlist =
                                   Collect([@ EXCEPT !.current_node = curr])]
                /\ ShowPlayer(play_song(Player, song_selected, loads, unloads))
                /\ playing_playlist' = current_pl
                /\ UNCHANGED <<hung, playlists_json>>
  /\ UNCHANGED <<tabFrame, current_playlist_name, playlist_descriptions,
                 playlists_list, music_end_pending, modal>>

\* Playlists tab: Switch makes the selected row of the list of playlists the
\* current playlist and refreshes both lists
ClickSwitch ==
  /\ UserClick
  /\ last_op # NoOp
  /\ LET selected == playlists_list.selected_index
         name == playlists_list.items[selected + 1]
         s == switch_playlist(Manager, name)
         r == RefreshCatalog(s.m, playlist_songs_list)
     IN IF selected >= 0
        THEN /\ current_playlist_name' = s.m.current_playlist_name
             /\ playlists_list' = r.playlists_list
             /\ playlist_songs_list' = r.playlist_songs_list
             /\ ApiCall("Switch", <<name>>, None, s.ret)
        ELSE /\ ApiCall("Switch", <<>>, None, None)
             /\ UNCHANGED <<current_playlist_name, playlists_list, playlist_songs_list>>
  /\ UNCHANGED <<tabFrame, hung, playlists, playlist_descriptions, playing_playlist,
                 playerVars, music_end_pending, modal, playlists_json>>

\* Playlists tab: Delete asks for confirmation when a row of the list of
\* playlists is selected
ClickDelete ==
  /\ UserClick
  /\ last_op # NoOp
  /\ modal' = IF playlists_list.selected_index >= 0
              THEN [type |-> "confirm",
                    name |-> playlists_list.items[playlists_list.selected_index + 1]]
              ELSE modal
  /\ ApiCall("Delete", <<>>, None, None)
  /\ UNCHANGED <<tabFrame, hung, playlists, current_playlist_name,
                 playlist_descriptions, playlists_list, playing_playlist, playerVars,
                 music_end_pending, playlist_songs_list, playlists_json>>

\* handle_modal: Yes in the confirmation.  The callback of Delete is
\*   delete_playlist(name) or playlist_descriptions.pop(name, None)
\*     or refresh_playlists() or save_playlists() or show_message(...)
\* so pop, refresh and save run only when delete_playlist returns False.
\* The deleted object stays attached if it was.
ConfirmYes ==
  /\ ~hung
  /\ modal # None
  /\ modal.type = "confirm"
  /\ end_run' = 0
  /\ modal' = None
  /\ LET d == delete_playlist(Manager, modal.name)
         r == RefreshCatalog(d.m, playlist_songs_list)
     IN /\ playlists' = d.m.playlists
        /\ current_playlist_name' = d.m.current_playlist_name
        /\ ApiCall("delete_playlist", <<modal.name>>, None, d.ret)
        /\ playing_playlist' =
             IF d.ret = True /\ playing_playlist = [playlist |-> modal.name]
             THEN [orphan |-> Attached(Manager, playing_playlist)]
             ELSE playing_playlist
        /\ IF d.ret = True
           THEN UNCHANGED <<playlist_descriptions, playlists_list,
                            playlist_songs_list, playlists_json>>
           ELSE /\ playlist_descriptions' =
                     [playlist_descriptions EXCEPT ![modal.name] = None]
                /\ playlists_list' = r.playlists_list
                /\ playlist_songs_list' = r.playlist_songs_list
                /\ playlists_json' = SaveCatalog(d.m, playlist_descriptions')
  /\ UNCHANGED <<tabFrame, hung, playerVars, music_end_pending>>

\* handle_events: the MUSIC_END branch, with the attached playlist an object
\* of the catalog
CatalogMusicEnd(loads, unloads) ==
  /\ ~hung
  /\ music_end_pending > 0
  /\ music_end_pending' = music_end_pending - 1
  /\ IF playing_playlist # None
     THEN LET P1 == next_song(Attached(Manager, playing_playlist)).pl
              song == get_current_song(P1)
          IN /\ song # None => Len(listening_history) < MaxCatalogPlays
             /\ IF "orphan" \in DOMAIN playing_playlist
                THEN /\ playing_playlist' = IF song # None THEN [orphan |-> P1]
                                            ELSE None
                     /\ UNCHANGED playlists
                ELSE /\ playing_playlist' = IF song # None THEN playing_playlist
                                            ELSE None
                     /\ playlists' =
                          [playlists EXCEPT ![IndexOf(Manager, playing_playlist.playlist)]
                                                .playlist = P1]
             /\ ShowPlayer(IF song # None THEN play_song(Player, song, loads, unloads)
                           ELSE Player)
     ELSE UNCHANGED <<playlists, playing_playlist, playerVars>>
  /\ UNCHANGED <<tabFrame, ret, last_op, hung, current_playlist_name,
                 playlist_descriptions, playlists_list, modal, playlist_songs_list,
                 playlists_json, end_run>>

\* Playlists tab: Play Playlist plays the song under the cursor of the
\* current playlist, the first song when the cursor is unset, and attaches
\* the playlist
ClickPlayCatalog(loads, unloads) ==
  /\ UserClick
  /\ last_op # NoOp
  /\ LET current_pl == get_current_playlist(Manager)
         k == IndexOf(Manager, current_pl.playlist)
         P == playlists[k].playlist
         P1 == IF get_current_song(P) = None THEN go_to_first_song(P).pl ELSE P
         song == get_current_song(P1)
     IN IF current_pl # None /\ song # None
        THEN /\ Len(listening_history) < MaxCatalogPlays
             /\ playlists' = [playlists EXCEPT ![k].playlist = P1]
             /\ ShowPlayer(play_song(Player, song, loads, unloads))
             /\ playing_playlist' = current_pl
        ELSE UNCHANGED <<playlists, playing_playlist, playerVars>>
  /\ ApiCall("Play Playlist", <<>>, None, None)
  /\ UNCHANGED <<tabFrame, hung, current_playlist_name, playlist_descriptions,
                 playlists_list, music_end_pending, modal, playlist_songs_list,
                 playlists_json>>

\* The Playlists tab on the catalog load_playlists() has built: the two
\* lists, Create New, Create from Lib and Delete with their dialogs, and the
\* end of a track (specification SpecCatalogGUI)
NextCatalogGUI ==
  \/ \E data \in FileData : LoadPlaylists(data)
  \/ \E on_confirm \in {"create_new", "create_from_lib"} : ClickCreate(on_confirm)
  \/ \E name \in Names, desc \in Descriptions : ConfirmText(name, desc)
  \/ ModalCancel
  \/ \E i \in 0..(MaxCatalog - 1) : ClickPlaylistRow(i)
  \/ \E i \in 0..(MaxPlaylist - 1), loads, unloads \in BOOLEAN :
       ClickCatalogSong(i, loads, unloads)
  \/ \E loads, unloads \in BOOLEAN : ClickPlayCatalog(loads, unloads)
  \/ ClickSwitch
  \/ ClickDelete
  \/ ConfirmYes
  \/ TrackFinished
  \/ \E loads, unloads \in BOOLEAN : CatalogMusicEnd(loads, unloads)

SpecCatalogGUI == Init /\ [][NextCatalogGUI]_vars

\* C19: after any sequence of create_playlist, delete_playlist,
\* switch_playlist and create_playlist_from_library calls, and after the
\* load_playlists of the GUI, current_playlist_name is None or a key of
\* playlists.
C19_CurrentNameIsKey ==
  current_playlist_name = None \/ current_playlist_name.name \in Keys(Manager)

C19_Witness ==
  /\ last_op.name = "delete_playlist"
  /\ ret.val = True
  /\ current_playlist_name # None
  /\ Len(playlists) = 1

\* C20: for every name that is not in the catalog, the empty string
\* included, create_playlist(name) returns True, adds an empty playlist
\* under name and makes it current: get_current_playlist() directly
\* afterwards returns the new playlist and add_song_to_current_playlist
\* adds to it.
C20_CreateMakesCurrent ==
  [][(last_op'.name = "create_playlist" /\ last_op'.title[1] \notin Keys(Manager)) =>
       LET n == last_op'.title[1]
           after == [playlists |-> playlists',
                     current_playlist_name |-> current_playlist_name']
       IN /\ ret'.val = True
          /\ playlists' = Append(playlists, [name |-> n, playlist |-> NewPlaylist])
          /\ current_playlist_name' = Name(n)
          /\ get_current_playlist(after) = [playlist |-> n]
          /\ \A song \in Library :
               LET added == add_song_to_current_playlist(after, song)
               IN /\ added.ret = True
                  /\ SongsOf(added.m.playlists[IndexOf(added.m, n)].playlist)
                       = <<song>>]_vars

\* C21: a Create New flow confirmed with a name that is already in the
\* catalog reports failure and overwrites nothing: the playlists with their
\* songs and cursors, the current selection and the description stored for
\* that name are as before.
C21_DuplicateCreateKeepsAll ==
  [][(last_op.name = "show_modal_text" /\ last_op'.name = "Create New"
        /\ last_op'.title[1] \in Keys(Manager)) =>
       /\ ret'.val = False
       /\ playlists' = playlists
       /\ current_playlist_name' = current_playlist_name
       /\ playlist_descriptions' = playlist_descriptions]_vars

\* C22: after a Create New flow has created a playlist under a new name
\* with description d, the description stored for that name, as
\* save_playlists and the Status tab read it (playlist_descriptions.get(name,
\* '')), is d.
C22_DescriptionStored ==
  [][(last_op.name = "show_modal_text" /\ last_op'.name = "Create New"
        /\ ret'.val = True) =>
       LET n == last_op'.title[1]
           d == last_op'.title[2]
       IN /\ n \in Keys([playlists |-> playlists',
                         current_playlist_name |-> current_playlist_name'])
          /\ d = (IF playlist_descriptions'[n] = None THEN ""
                  ELSE playlist_descriptions'[n].name)]_vars

\* C23: delete_playlist(name) returns False and changes nothing when name is
\* not in the catalog; otherwise it returns True, removes exactly the entry
\* of name, leaves every other playlist as it was and in its place, and
\* unsets the current selection if and only if it was name.
C23_DeleteFrame ==
  [][last_op'.name = "delete_playlist" =>
       LET n == last_op'.title[1]
           after == [playlists |-> playlists',
                     current_playlist_name |-> current_playlist_name']
       IN IF n \notin Keys(Manager)
          THEN /\ ret'.val = False
               /\ playlists' = playlists
               /\ current_playlist_name' = current_playlist_name
          ELSE /\ ret'.val = True
               /\ Keys(after) = Keys(Manager) \ {n}
               /\ Len(playlists') = Len(playlists) - 1
               /\ \A i \in 1..Len(playlists) :
                    LET j == IF i < IndexOf(Manager, n) THEN i ELSE i - 1
                    IN i # IndexOf(Manager, n) => playlists'[j] = playlists[i]
               /\ (current_playlist_name' = None) <=>
                    (current_playlist_name = None \/ current_playlist_name = Name(n))
               /\ current_playlist_name # Name(n) =>
                    current_playlist_name' = current_playlist_name]_vars

\* C23 witness: delete_playlist has removed the current playlist and has
\* left another one, which holds songs
C23_Witness ==
  /\ last_op.name = "delete_playlist"
  /\ ret.val = True
  /\ current_playlist_name = None
  /\ Len(playlists) = 1
  /\ playlists[1].playlist.size > 0

\* C24: switch_playlist(name) returns False and leaves the current selection
\* as it was when name is not a key of the catalog, the None given by
\* load_playlists included; otherwise it returns True and the current
\* selection becomes name.  No playlist is changed in either case.
C24_SwitchFrame ==
  [][last_op'.name = "switch_playlist" =>
       /\ playlists' = playlists
       /\ IF last_op'.title = <<>> \/ last_op'.title[1] \notin Keys(Manager)
          THEN /\ ret'.val = False
               /\ current_playlist_name' = current_playlist_name
          ELSE /\ ret'.val = True
               /\ current_playlist_name' = Name(last_op'.title[1])]_vars

\* C24 witness: switch_playlist has moved the selection to the first of two
\* playlists
C24_Witness ==
  /\ last_op.name = "switch_playlist"
  /\ ret.val = True
  /\ Len(playlists) = 2
  /\ current_playlist_name = Name(playlists[1].name)
  /\ playlists[2].playlist.size > 0

\* C25: create_playlist_from_library(name, library, max_songs) with a name
\* that is not in the catalog and max_songs >= 0 adds a playlist under name
\* whose songs from head to tail are the first min(max_songs, len(library))
\* entries of the library in library order, and makes name the current
\* selection; the playlists that were there are unchanged.
C25_FromLibraryPrefix ==
  [][(/\ last_op'.name = "create_playlist_from_library"
      /\ last_op'.title[1] \notin Keys(Manager)
      /\ last_op'.song.max_songs >= 0) =>
       LET n == last_op'.title[1]
           library == last_op'.song.library
           k == IF last_op'.song.max_songs < Len(library)
                THEN last_op'.song.max_songs ELSE Len(library)
           new == playlists'[Len(playlists')].playlist
       IN /\ Len(playlists') = Len(playlists) + 1
          /\ SubSeq(playlists', 1, Len(playlists)) = playlists
          /\ playlists'[Len(playlists')].name = n
          /\ WellFormed(new)
          /\ new.size = k
          /\ SongsOf(new) = SubSeq(library, 1, k)
          /\ current_playlist_name' = Name(n)]_vars

\* C25 witness: a library of two songs and max_songs = 1 have given a
\* playlist of one song next to a playlist that was there before
C25_Witness ==
  /\ last_op.name = "create_playlist_from_library"
  /\ ret.val = True
  /\ last_op.song.max_songs = 1
  /\ Len(last_op.song.library) = 2
  /\ Len(playlists) = 2
  /\ playlists[2].playlist.size = 1

\* C26: load_playlists on a file whose songs all have a file_path creates one
\* playlist per persisted name, in persisted order, holding exactly the
\* persisted songs whose file_path is the file_path of a library song, in
\* persisted order; songs whose file is missing are skipped and the loading
\* goes on behind them.
C26_LoadKeepsLibrarySongs ==
  [][(/\ last_op'.name = "load_playlists"
      /\ \A i \in 1..Len(ret'.val.data) : \A k \in 1..Len(ret'.val.data[i].songs) :
           "file_path" \in DOMAIN ret'.val.data[i].songs[k]) =>
       LET data == ret'.val.data
       IN /\ Len(playlists') = Len(data)
          /\ \A i \in 1..Len(data) :
               /\ playlists'[i].name = data[i].name
               /\ SongsOf(playlists'[i].playlist) =
                    SelectSeq(data[i].songs,
                              LAMBDA s : \E l \in Library : l.file_path = s.file_path)]_vars

\* C27: when load_playlists is ended by an error, the program goes on with
\* an empty catalog: no playlist of the failed load is left and no current
\* selection is set.
C27_FailedLoadLeavesNothing ==
  [][(last_op'.name = "load_playlists" /\ ret'.val.load = "raise") =>
       /\ playlists' = <<>>
       /\ current_playlist_name' = None]_vars

\* C28: play_next_song on an empty Play-Next Queue and play_from_party_queue
\* on an empty Party Queue return without an error, make no call to
\* pygame.mixer.music, and leave currently_playing, the listening history,
\* the state of the mixer and both queues as they were.
C28_EmptyQueueNoOp ==
  [][(\/ last_op'.name = "play_next_song" /\ play_next_queue = <<>>
      \/ last_op'.name = "play_from_party_queue" /\ party_queue = <<>>) =>
       /\ ret'.st = "ok"
       /\ audio_log' = <<>>
       /\ currently_playing' = currently_playing
       /\ listening_history' = listening_history
       /\ mixer' = mixer
       /\ play_next_queue' = play_next_queue
       /\ party_queue' = party_queue]_vars

\* C28 witness: play_next_song has returned on an empty Play-Next Queue
\* while a song is playing and the Party Queue holds an entry
C28_Witness ==
  /\ last_op.name = "play_next_song"
  /\ play_next_queue = <<>>
  /\ audio_log = <<>>
  /\ currently_playing # None
  /\ mixer = "playing"
  /\ party_queue # <<>>

\* C29: when two or more entries have the title given, ignoring case,
\* remove_song removes the first of them in head-to-tail order,
\* insert_song_after and insert_song_before put the new node next to that
\* first one, and PrioritySongQueue.upvote raises the first of them in stored
\* order; every other node or entry, those of the same title included, keeps
\* its data, its priority and its place among the others.
C29_FirstMatchOnly ==
  [][LET t == last_op'.title
         F == Fwd(pl)
         F2 == Fwd(pl')
         i == FirstTitleIndex(pl, t)
         nodes == {k \in 1..Len(F) : lower(pl.song_data[F[k]].title) = lower(t)}
         entries == {k \in 1..Len(party_queue) :
                       lower(party_queue[k].song.title) = lower(t)}
     IN /\ (/\ last_op'.name \in {"remove_song", "insert_song_after",
                                  "insert_song_before"}
            /\ Cardinality(nodes) >= 2) =>
             /\ ret'.st = "ok" /\ ret'.val = True
             /\ \A k \in 1..Len(F) :
                  k # i => pl'.song_data[F[k]] = pl.song_data[F[k]]
             /\ last_op'.name = "remove_song" =>
                  F2 = SubSeq(F, 1, i - 1) \o SubSeq(F, i + 1, Len(F))
             /\ last_op'.name = "insert_song_after" =>
                  /\ Len(F2) = Len(F) + 1
                  /\ F2 = InsertAt(F, i, F2[i + 1])
                  /\ F2[i + 1] \notin Range(F)
                  /\ pl'.song_data[F[i]] = pl.song_data[F[i]]
             /\ last_op'.name = "insert_song_before" =>
                  /\ Len(F2) = Len(F) + 1
                  /\ F2 = InsertAt(F, i - 1, F2[i])
                  /\ F2[i] \notin Range(F)
                  /\ pl'.song_data[F[i]] = pl.song_data[F[i]]
        /\ (last_op'.name = "upvote" /\ Cardinality(entries) >= 2) =>
             LET first == CHOOSE k \in entries : \A j \in entries : k <= j
             IN /\ ret'.val = True
                /\ Seqs(party_queue') = Seqs(party_queue)
                /\ PriorityOf(party_queue', party_queue[first].seq)
                     = party_queue[first].priority + 1
                /\ \A k \in 1..Len(party_queue) :
                     k # first =>
                       /\ PriorityOf(party_queue', party_queue[k].seq)
                            = party_queue[k].priority
                       /\ party_queue'[PosOf(party_queue', party_queue[k].seq)].song
                            = party_queue[k].song]_vars

\* ------------------------------------------------------------------------
\* The event loop of the GUI with the Queues tab and the Next button of the
\* Now Playing tab (specification SpecEvents).  Every handler runs to its
\* end before the next event is taken from the pygame queue.
\* ------------------------------------------------------------------------
\* refresh_queues(): the list of the Queues tab shows the Play-Next Queue
refresh_queues(q) == [items |-> q, selected_index |-> -1]

\* What no handler of the Queues tab touches
queuesFrame == <<pl, ret, last_op, hung, ill_ops, enq_count, audio_log, sqVars,
                 playlists, current_playlist_name, playlist_descriptions,
                 playlists_list, playing_playlist, music_end_pending,
                 playlist_songs_list, playlists_json>>

\* Queues tab: Add to Next and Add to Party open the song selection
ClickAddToQueue(on_select) ==
  /\ UserClick
  /\ modal' = [type |-> "song_select", on_select |-> on_select, target |-> <<>>]
  /\ UNCHANGED <<queuesFrame, playerVars, play_next_queue, play_next_list,
                 party_queue>>

\* handle_modal: a song of the selection is clicked.  The callback of Add to
\* Next is add_to_play_next(song) or refresh_queues() or show_message(...);
\* add_to_play_next returns None, so the list is refreshed.  The callback of
\* Add to Party opens the dialog for the priority, and handle_modal sets
\* modal = None right after it: nothing is added to the Party Queue.
ModalSelectQueue(song) ==
  /\ ~hung
  /\ modal # None
  /\ modal.type = "song_select"
  /\ modal.on_select \in {"add_to_play_next", "add_to_party"}
  /\ end_run' = 0
  /\ modal' = None
  /\ IF modal.on_select = "add_to_play_next"
     THEN /\ Len(play_next_queue) < MaxGuiQueue
          /\ play_next_queue' = SongQueue_enqueue(play_next_queue, song)
          /\ play_next_list' = refresh_queues(play_next_queue')
     ELSE UNCHANGED <<play_next_queue, play_next_list>>
  /\ UNCHANGED <<queuesFrame, playerVars, party_queue>>

\* Queues tab: Play Next and Play Party: play_next_song() or
\* play_from_party_queue(), refresh_queues(), update_now_playing(),
\* refresh_history().  The attached playlist stays attached.
ClickPlayQueue(party, loads, unloads) ==
  /\ UserClick
  /\ LET d == IF party THEN dequeue(party_queue)
              ELSE SongQueue_dequeue(play_next_queue)
     IN /\ d.ret # None => CanPlay
        /\ party_queue' = IF party THEN d.queue ELSE party_queue
        /\ play_next_queue' = IF party THEN play_next_queue ELSE d.queue
        /\ play_next_list' = refresh_queues(play_next_queue')
        /\ ShowPlayer(IF d.ret # None THEN play_song(Player, d.ret, loads, unloads)
                      ELSE Player)
  /\ UNCHANGED <<queuesFrame, modal>>

\* Queues tab: Clear Next and Clear Party
ClickClearQueue(party) ==
  /\ UserClick
  /\ party_queue' = IF party THEN clear_queue(party_queue) ELSE party_queue
  /\ play_next_queue' = IF party THEN play_next_queue
                        ELSE SongQueue_clear_queue(play_next_queue)
  /\ play_next_list' = refresh_queues(play_next_queue')
  /\ UNCHANGED <<queuesFrame, playerVars, modal>>

\* Now Playing tab: Next.  With an attached playlist next_song() and a play
\* of get_current_song(); without one play_next_song(), and the list of the
\* Queues tab is not refreshed.
ClickNext(loads, unloads) ==
  /\ UserClick
  /\ IF playing_playlist # None
     THEN LET P1 == next_song(pl).pl
              song == get_current_song(P1)
          IN /\ pl' = P1
             /\ IF song # None
                THEN /\ CanPlay
                     /\ ShowPlayer(play_song(Player, song, loads, unloads))
                ELSE UNCHANGED playerVars
             /\ UNCHANGED play_next_queue
     ELSE LET d == SongQueue_dequeue(play_next_queue)
          IN /\ d.ret # None => CanPlay
             /\ play_next_queue' = d.queue
             /\ ShowPlayer(IF d.ret # None
                           THEN play_song(Player, d.ret, loads, unloads)
                           ELSE Player)
             /\ UNCHANGED pl
  /\ UNCHANGED <<ret, last_op, hung, ill_ops, pqVars, audio_log, sqVars,
                 catalogVars, playing_playlist, music_end_pending, modal,
                 playlist_songs_list, playlists_json>>

NextEvents ==
  \/ \E i \in 0..(MaxPlaylist - 1), loads, unloads \in BOOLEAN :
       ClickPlaylistSong(i, loads, unloads)
  \/ ClickAddSong
  \/ ClickInsertAfter
  \/ \E song \in Library : ModalSelectSong(song)
  \/ ModalCancel
  \/ ClickRemoveSong
  \/ ClickShuffle
  \/ \E loads, unloads \in BOOLEAN : ClickPlayPlaylist(loads, unloads)
  \/ ClickFirstSong
  \/ ClickLastSong
  \/ ClickNextSong
  \/ ClickPrevSong
  \/ TrackFinished
  \/ \E loads, unloads \in BOOLEAN : HandleMusicEnd(loads, unloads)
  \/ \E on_select \in {"add_to_play_next", "add_to_party"} : ClickAddToQueue(on_select)
  \/ \E song \in Library : ModalSelectQueue(song)
  \/ \E party, loads, unloads \in BOOLEAN : ClickPlayQueue(party, loads, unloads)
  \/ \E party \in BOOLEAN : ClickClearQueue(party)
  \/ \E loads, unloads \in BOOLEAN : ClickNext(loads, unloads)

SpecEvents == Init /\ [][NextEvents]_vars

\* C30: the MUSIC_END branch of handle_events may run between any two
\* handlers of the Playlists tab, the Queues tab and the Next button, also
\* while a modal is open; each time it has run it has not hung, the walk
\* from head ends and has size nodes, and current_node is unset or one of
\* the nodes of the walk.
C30_HandlerSafe ==
  [][(music_end_pending' = music_end_pending - 1) =>
       /\ ~hung'
       /\ ~Cyclic(pl')
       /\ pl'.size = Len(Fwd(pl'))
       /\ pl'.current_node = Null \/ pl'.current_node \in Range(Fwd(pl'))]_vars

\* The branch has played the next song of the attached playlist while the
\* song selection was open and a song waited in the Play-Next Queue
C30_Witness ==
  /\ end_run > 0
  /\ modal # None
  /\ playing_playlist # None
  /\ pl.size = MaxPlaylist
  /\ pl.current_node = pl.tail
  /\ play_next_queue # <<>>

\* ------------------------------------------------------------------------
\* Claims on failed play requests, two-step dialogs and the attached
\* playlist
\* ------------------------------------------------------------------------
\* C31: the song play_next_song or play_from_party_queue takes from its
\* queue is afterwards the currently playing song and the newest history
\* entry, or it is still in its queue.
C31_NoSongDropped ==
  [][LET taken == IF last_op'.name = "play_next_song" /\ play_next_queue # <<>>
                  THEN play_next_queue[1]
                  ELSE IF last_op'.name = "play_from_party_queue" /\ party_queue # <<>>
                  THEN party_queue[1].song
                  ELSE None
         played == /\ currently_playing' = taken
                   /\ listening_history' # <<>>
                   /\ listening_history'[Len(listening_history')] = taken
         kept == IF last_op'.name = "play_next_song"
                 THEN \E i \in 1..Len(play_next_queue') : play_next_queue'[i] = taken
                 ELSE \E i \in 1..Len(party_queue') : party_queue'[i].song = taken
     IN taken # None => played \/ kept]_vars

\* C32: when the name dialog of Create from Lib is confirmed, the dialog for
\* the number of songs is open afterwards.
C32_SecondDialogOpens ==
  [][(last_op.name = "show_modal_text" /\ last_op'.name = "Create from Lib")
       => /\ modal' # None
          /\ modal'.type = "text"]_vars

\* C33: a click on a row of the song list does not raise, and afterwards
\* the cursor of the current playlist is on a node holding the clicked song
\* and that playlist is attached.
C33_ClickPlaysClickedRow ==
  [][(last_op'.name = "song_click" /\ last_op.name # "song_click") =>
       LET M == [playlists |-> playlists',
                 current_playlist_name |-> current_playlist_name']
           c == get_current_playlist(M)
           P == M.playlists[IndexOf(M, c.playlist)].playlist
       IN /\ ret'.st = "ok"
          /\ c # None
          /\ P.current_node # Null
          /\ P.song_data[P.current_node] = last_op'.song
          /\ playing_playlist' = c]_vars

C35_DescriptionsOfKeys ==
  \A n \in Names : playlist_descriptions[n] # None => n \in Keys(Manager)

\* ------------------------------------------------------------------------
\* Claims on the cursor of LinkedListPlaylist
\* ------------------------------------------------------------------------
\* C36: a reverse_playlist call that returns leaves current_node on the node
\* it was on before the call.
C36_ReverseKeepsCursorNode ==
  [][(last_op'.name = "reverse_playlist" /\ ret'.st = "ok")
       => pl'.current_node = pl.current_node]_vars

\* ------------------------------------------------------------------------
\* Claims on the catalog of playlists
\* ------------------------------------------------------------------------
\* C37: what save_playlists writes for the catalog, loaded by load_playlists
\* into a new PlaylistManager over the same library and saved again, is the
\* same content: the names, their descriptions and their songs in order.
C37_SaveLoadRoundTrip ==
  LET data == SaveCatalog(Manager, playlist_descriptions)
      l == load_playlists([playlists |-> <<>>, current_playlist_name |-> None],
                          [n \in Names |-> None], data)
  IN SaveCatalog(l.m, l.d) = data

\* C38: a create_playlist_from_library call that returns False leaves the
\* playlists of the catalog and the current selection as they were.
C38_FailedFromLibraryKeepsCatalog ==
  [][(last_op'.name = "create_playlist_from_library" /\ ret'.val = False)
       => /\ playlists' = playlists
          /\ current_playlist_name' = current_playlist_name]_vars

\* C39: current_node is unset exactly when the playlist is empty (head is
\* None), after any sequence of add, insert, remove, cursor moves, shuffle
\* and reverse.
C39_CursorUnsetIffEmpty ==
  (pl.current_node = Null) <=> is_empty(pl)

\* ------------------------------------------------------------------------
\* recursive_shuffle_playlist (specification SpecShuffle)
\* ------------------------------------------------------------------------
\* The deepest recursion before the functions fall back to a loop
DepthLimit == 50

\* The outcomes of the calls of random.random() < 0.5, in the order of the
\* calls: the first outcomes are listed in prefix, all later ones are rest
CoinStreams ==
  {[prefix |-> p, rest |-> r] :
     p \in UNION {[1..n -> BOOLEAN] : n \in 0..MaxCoins}, r \in BOOLEAN}

\* random.random() < 0.5 at the k-th call
Coin(c, k) == IF k <= Len(c.prefix) THEN c.prefix[k] ELSE c.rest

\* The fallback loop of merge_with_random_order; k counts the calls of
\* random.random() made so far
RECURSIVE MergeLoop(_, _, _, _, _)
MergeLoop(left, right, result, c, k) ==
  IF left # <<>> /\ right # <<>>
  THEN IF Coin(c, k + 1)
       THEN MergeLoop(Tail(left), right, Append(result, Head(left)), c, k + 1)
       ELSE MergeLoop(left, Tail(right), Append(result, Head(right)), c, k + 1)
  ELSE [songs |-> result \o left \o right, k |-> k]

\* merge_with_random_order(left, right, depth).  taken holds the songs the
\* calls above this one have put in front of their results.  With both
\* lists non-empty the call takes left[0] and goes on with left[1:], or it
\* takes right[0] and goes on with right again, not with right[1:]; an empty
\* list ends the recursion with the other list.
RECURSIVE merge_with_random_order(_, _, _, _, _, _)
merge_with_random_order(left, right, depth, taken, c, k) ==
  IF depth <= DepthLimit /\ left # <<>> /\ right # <<>>
  THEN merge_with_random_order(
         IF Coin(c, k + 1) THEN Tail(left) ELSE left,
         right,
         depth + 1,
         Append(taken, IF Coin(c, k + 1) THEN Head(left) ELSE Head(right)),
         c, k + 1)
  ELSE IF depth > DepthLimit THEN MergeLoop(left, right, taken, c, k)
  ELSE [songs |-> taken \o left \o right, k |-> k]

\* recursive_shuffle_playlist(playlist, depth).  Beyond DepthLimit the result
\* is random.sample(playlist, len(playlist)); the halving reaches that depth
\* for no list of the model, and the draw then only keeps or reverses it.
RECURSIVE recursive_shuffle_playlist(_, _, _, _)
recursive_shuffle_playlist(playlist, depth, c, k) ==
  IF depth > DepthLimit
  THEN [songs |-> IF Coin(c, k + 1) THEN playlist ELSE Reverse(playlist), k |-> k + 1]
  ELSE IF Len(playlist) <= 1 THEN [songs |-> playlist, k |-> k]
  ELSE IF Len(playlist) = 2
  THEN [songs |-> IF Coin(c, k + 1) THEN playlist ELSE Reverse(playlist), k |-> k + 1]
  ELSE LET mid == Len(playlist) \div 2
           shuffled_left == recursive_shuffle_playlist(SubSeq(playlist, 1, mid),
                                                       depth + 1, c, k)
           shuffled_right ==
             recursive_shuffle_playlist(SubSeq(playlist, mid + 1, Len(playlist)),
                                        depth + 1, c, shuffled_left.k)
       IN merge_with_random_order(shuffled_left.songs, shuffled_right.songs,
                                  depth + 1, <<>>, c, shuffled_right.k)

\* The lists of at most MaxShuffle songs
ShuffleInputs == UNION {[1..n -> Songs] : n \in 0..MaxShuffle}

\* One call recursive_shuffle_playlist(playlist); ret keeps the list given
\* and the list returned
RecursiveShuffle(playlist, c) ==
  /\ ApiCall("recursive_shuffle_playlist", <<>>, None,
             [playlist |-> playlist,
              songs |-> recursive_shuffle_playlist(playlist, 0, c, 0).songs])
  /\ UNCHANGED <<plVars, pqVars, queueVars, catalogVars, playing_playlist,
                 currently_playing, listening_history, mixer, music_end_pending,
                 modal, playlist_songs_list, history_display, now_playing,
                 playlists_json, end_run>>

NextShuffle == \E playlist \in ShuffleInputs, c \in CoinStreams : RecursiveShuffle(playlist, c)

SpecShuffle == Init /\ [][NextShuffle]_vars

\* C40: the list recursive_shuffle_playlist returns has the length of the
\* list given and holds every song as often as the list given.
C40_ShuffleIsPermutation ==
  last_op.name = "recursive_shuffle_playlist" =>
    LET Count(s, song) == Cardinality({i \in 1..Len(s) : s[i] = song})
    IN /\ Len(ret.val.songs) = Len(ret.val.playlist)
       /\ \A song \in Songs :
            Count(ret.val.songs, song) = Count(ret.val.playlist, song)

====
